---- MODULE Spec2Model ----
(***************************************************************************)
(* The deadline manager page (the variant with priority, overdue state and *)
(* the undo/redo history stack), its record store client and local storage *)
(* as a state machine.                                                     *)
(*                                                                         *)
(* Calendar dates ("YYYY-MM-DD") are day numbers 1..MaxDay: new Date(s)    *)
(* of an ISO date is its UTC midnight, so comparing the Date objects is    *)
(* comparing the day numbers. Timestamps (createdAt, completedAt) are      *)
(* numbers too. An optional field that is absent holds Undefined (a number *)
(* field) or "" (a string field: the code tests these with ||, for which   *)
(* "" and undefined are both falsy). isOverdue absent is FALSE. The texts  *)
(* that are searched (name, purpose, the query) are tuples of characters.  *)
(*                                                                         *)
(* A handler is one step: the awaits inside it are not interleaved with    *)
(* other handlers here. The edit form and the add form are the arguments   *)
(* of saveEdit and handleAdd; confirm() answered "no" is no step.          *)
(***************************************************************************)
EXTENDS Integers, Sequences, FiniteSets, TLC

VARIABLES
    contacts,          \* useState<Contact[]>: the canonical list
    history,           \* useState<Contact[][]>
    historyIndex,      \* useState(-1)
    selectedIds,       \* useState<Set<string>>
    draggedContactId,  \* useState<string | null>
    editingId,         \* useState<string | null>
    sortMode,          \* useState 'auto' | 'manual' | 'created' | 'priority'
    selectedCategory,  \* useState<ContactCategory | 'all'>
    searchQuery,       \* useState('')
    useDatabase,       \* isSupabaseConfigured()
    today,             \* the UTC calendar date of the clock
    remote,            \* the contacts table of the record store
    nextId,            \* the next id the store (or Date.now()) hands out
    localContacts,     \* localStorage['contacts'] (NoItem when absent)
    localAgent,        \* localStorage['agent-details'] (NoItem when absent)
    calls,             \* the store calls issued by the last handler
    op,                \* the last handler that ran, with its arguments
    prev,              \* the canonical list as the last reconciliation run found it
    given,             \* the input of a run: the list the page was given at the start,
                       \* or the request the endpoint was given
    runDays,           \* the days on which those runs were made
    inflight,          \* the handlers and loads that have started and await the store
    response,          \* the last response of the digest endpoint
    webhook            \* the messages the last request posted to the webhook

vars == <<contacts, history, historyIndex, selectedIds, draggedContactId,
          editingId, sortMode, selectedCategory, searchQuery,
          useDatabase, today, remote, nextId, localContacts, localAgent,
          calls, op, prev, given, runDays, inflight, response, webhook>>

(***************************************************************************)
(* Bounds of the model.                                                    *)
(***************************************************************************)
MaxContacts == 2
MaxDay == 3
MaxHistory == 2
MaxRuns == 2
MaxView == 3
MaxId == MaxContacts + 1
MaxRecords == 1
MaxCustomDays == 2

(***************************************************************************)
(* Values.                                                                 *)
(***************************************************************************)
Undefined == -1
NoId == 0
NoUser == 0
UserId == 1
NoItem == [present |-> FALSE, items |-> <<>>]
Item(cs) == [present |-> TRUE, items |-> cs]
NoOp == [name |-> "", id |-> NoId, arg |-> ""]
Op(name, id, arg) == [name |-> name, id |-> id, arg |-> arg]

Days == 1..MaxDay
Ids == 1..(MaxContacts + 1)

Min(a, b) == IF a < b THEN a ELSE b

\* A record as handleAdd builds it before the overdue check.
Contact(id, name, purpose, deadline, category, priority, createdAt) ==
    [id |-> id, name |-> name, purpose |-> purpose, deadline |-> deadline,
     status |-> "pending", category |-> category, priority |-> priority,
     createdAt |-> createdAt, completedAt |-> Undefined, recurring |-> "",
     recurringDays |-> Undefined, recurringWeekday |-> Undefined,
     order |-> Undefined, isOverdue |-> FALSE, originalDeadline |-> Undefined]

\* contact.originalDeadline || contact.deadline
OrElse(a, b) == IF a = Undefined THEN b ELSE a

\* contact.category || 'customer', for the fields that hold text
OrElseText(a, b) == IF a = "" THEN b ELSE a

(***************************************************************************)
(* checkAndFixOverdueContacts: the overdue reconciliation pass.            *)
(***************************************************************************)
fixOverdueRecomputing(contact, t) ==
    IF contact.deadline < t /\ contact.status = "pending"
    THEN [contact EXCEPT !.originalDeadline = OrElse(contact.originalDeadline, contact.deadline),
                         !.deadline = t,
                         !.isOverdue = TRUE]
    ELSE [contact EXCEPT !.isOverdue = FALSE]

fixOverdueOverwriting(contact, t) ==
    IF contact.deadline < t /\ contact.status = "pending"
    THEN [contact EXCEPT !.originalDeadline = contact.deadline,
                         !.deadline = t,
                         !.isOverdue = TRUE]
    ELSE contact

fixOverdue(contact, t) ==
    IF contact.deadline < t /\ contact.status = "pending"
    THEN [contact EXCEPT !.originalDeadline = OrElse(contact.originalDeadline, contact.deadline),
                         !.deadline = t,
                         !.isOverdue = TRUE]
    ELSE contact

checkAndFixOverdueContacts(cs, t) ==
    [i \in 1..Len(cs) |-> fixOverdue(cs[i], t)]

(***************************************************************************)
(* The page as mounted, before any load, and an idle environment.          *)
(***************************************************************************)
PageRest ==
    /\ history = <<>>
    /\ historyIndex = -1
    /\ selectedIds = {}
    /\ draggedContactId = NoId
    /\ editingId = NoId
    /\ sortMode = "priority"
    /\ selectedCategory = "all"
    /\ searchQuery = <<>>

PageInit == contacts = <<>> /\ PageRest

EnvIdle ==
    /\ useDatabase = FALSE
    /\ remote = <<>>
    /\ nextId = 1
    /\ localContacts = NoItem
    /\ localAgent = NoItem
    /\ calls = <<>>
    /\ op = NoOp

\* No handler is waiting, and the digest endpoint has not been called.
NoResponse == [status |-> 0, error |-> "", message |-> "", date |-> -1, notified |-> 0,
               contacts |-> <<>>]
Idle == inflight = <<>> /\ response = NoResponse /\ webhook = <<>>
asyncVars == <<inflight, response, webhook>>

pageVars == <<history, historyIndex, selectedIds, draggedContactId, editingId,
              sortMode, selectedCategory, searchQuery>>
envVars == <<useDatabase, remote, nextId, localContacts, localAgent, calls>>

\* The clock passes midnight (UTC).
advanceDay ==
    /\ today < MaxDay
    /\ today' = today + 1
    /\ UNCHANGED <<contacts, pageVars, envVars, op, prev, given, runDays, asyncVars>>

(***************************************************************************)
(* filteredAndSortedContacts: the filter-sort projection of a render.      *)
(***************************************************************************)
\* getPriorityValue: A=1, B=2, C=3, absent as C.
getPriorityValueUnsetFirst(priority) ==
    CASE priority = "A" -> 1
      [] priority = "B" -> 2
      [] priority = "C" -> 3
      [] OTHER -> 0

getPriorityValue(priority) ==
    CASE priority = "A" -> 1
      [] priority = "B" -> 2
      [] priority = "C" -> 3
      [] OTHER -> 3

\* getSortDate: the original date of an overdue record, else its deadline.
getSortDateDeadline(contact) == contact.deadline

getSortDate(contact) ==
    IF contact.isOverdue /\ contact.originalDeadline # Undefined
    THEN contact.originalDeadline
    ELSE contact.deadline

manualCompareDescending(mode, a, b) ==
    IF mode = "manual" /\ a.order # Undefined /\ b.order # Undefined
    THEN b.order - a.order
    ELSE 0

\* The comparator of the first sort: the manual order, when both have one.
manualCompare(mode, a, b) ==
    IF mode = "manual" /\ a.order # Undefined /\ b.order # Undefined
    THEN a.order - b.order
    ELSE 0

\* The comparator of the second sort.
modeCompare(mode, a, b) ==
    IF mode = "manual" THEN 0
    ELSE IF mode = "created" THEN b.createdAt - a.createdAt
    ELSE IF mode = "priority"
         THEN LET priorityDiff == getPriorityValue(a.priority) - getPriorityValue(b.priority)
              IN IF priorityDiff # 0 THEN priorityDiff
                 ELSE getSortDate(a) - getSortDate(b)
    ELSE getSortDate(a) - getSortDate(b)

\* .order('deadline', { ascending: true }) of the store's list query.
deadlineCompare(a, b) == a.deadline - b.deadline

Compare(which, mode, a, b) ==
    CASE which = 1 -> manualCompare(mode, a, b)
      [] which = 2 -> modeCompare(mode, a, b)
      [] OTHER -> deadlineCompare(a, b)

\* Array.prototype.sort: a stable sort (ECMAScript 2019), here the binary insertion
\* sort engines use for short arrays. The pivot goes after the elements it does
\* not precede.
RECURSIVE BinarySearch(_, _, _, _, _, _)
BinarySearch(which, mode, sorted, pivot, left, right) ==
    IF left >= right THEN left
    ELSE LET mid == left + ((right - left) \div 2)
         IN IF Compare(which, mode, pivot, sorted[mid + 1]) < 0
            THEN BinarySearch(which, mode, sorted, pivot, left, mid)
            ELSE BinarySearch(which, mode, sorted, pivot, mid + 1, right)

InsertAt(sorted, pivot, k) ==
    SubSeq(sorted, 1, k) \o <<pivot>> \o SubSeq(sorted, k + 1, Len(sorted))

RECURSIVE SortInto(_, _, _, _)
SortInto(which, mode, sorted, rest) ==
    IF rest = <<>> THEN sorted
    ELSE SortInto(which, mode,
                  InsertAt(sorted, Head(rest),
                           BinarySearch(which, mode, sorted, Head(rest), 0, Len(sorted))),
                  Tail(rest))

sort(which, mode, cs) == SortInto(which, mode, <<>>, cs)

\* String.prototype.toLowerCase, on the characters of the model.
LowerChar(ch) ==
    CASE ch = "A" -> "a"
      [] ch = "B" -> "b"
      [] OTHER -> ch

toLowerCase(str) == [i \in 1..Len(str) |-> LowerChar(str[i])]

\* String.prototype.includes
includes(str, q) ==
    \E start \in 0..(Len(str) - Len(q)) :
        \A k \in 1..Len(q) : str[start + k] = q[k]

\* contact.category || 'customer'
CategoryOf(contact) == IF contact.category = "" THEN "customer" ELSE contact.category

matchesCategory(contact, cat) == cat = "all" \/ CategoryOf(contact) = cat

matchesSearchNameOnly(contact, q) ==
    \/ q = <<>>
    \/ includes(toLowerCase(contact.name), toLowerCase(q))

matchesSearch(contact, q) ==
    \/ q = <<>>
    \/ includes(toLowerCase(contact.name), toLowerCase(q))
    \/ includes(toLowerCase(contact.purpose), toLowerCase(q))

\* Array.prototype.filter
RECURSIVE filter(_, _, _)
filter(cs, cat, q) ==
    IF cs = <<>> THEN <<>>
    ELSE (IF matchesCategory(Head(cs), cat) /\ matchesSearch(Head(cs), q)
          THEN <<Head(cs)>> ELSE <<>>) \o filter(Tail(cs), cat, q)

filteredAndSortedContacts(cs, mode, cat, q) ==
    sort(2, mode, filter(sort(1, mode, cs), cat, q))

\* What a render leaves behind: the canonical array (the sorts run on the copy
\* [...contacts], never on contacts itself) and the projection.
renderSortingInPlace(cs, mode, cat, q) ==
    [canonical |-> sort(2, mode, cs),
     projection |-> filteredAndSortedContacts(cs, mode, cat, q)]

render(cs, mode, cat, q) ==
    [canonical |-> cs,
     projection |-> filteredAndSortedContacts(cs, mode, cat, q)]

\* The projection the page shows in the current state.
projection == render(contacts, sortMode, selectedCategory, searchQuery).projection

\* The sort button: priority -> auto -> created -> manual -> priority.
NextSortMode(mode) ==
    CASE mode = "priority" -> "auto"
      [] mode = "auto" -> "created"
      [] mode = "created" -> "manual"
      [] OTHER -> "priority"

nonViewVars == <<history, historyIndex, selectedIds, draggedContactId, editingId,
                 envVars, today, op, prev, given, runDays, asyncVars>>

setSortMode ==
    /\ sortMode' = NextSortMode(sortMode)
    /\ contacts' = render(contacts, sortMode', selectedCategory, searchQuery).canonical
    /\ UNCHANGED <<selectedCategory, searchQuery, nonViewVars>>

setSelectedCategory(cat) ==
    /\ cat # selectedCategory
    /\ selectedCategory' = cat
    /\ contacts' = render(contacts, sortMode, cat, searchQuery).canonical
    /\ UNCHANGED <<sortMode, searchQuery, nonViewVars>>

setSearchQuery(q) ==
    /\ q # searchQuery
    /\ searchQuery' = q
    /\ contacts' = render(contacts, sortMode, selectedCategory, q).canonical
    /\ UNCHANGED <<sortMode, selectedCategory, nonViewVars>>

(***************************************************************************)
(* contactsApi: the record store client. A call that fails logs the error, *)
(* leaves the table as it is and returns its sentinel ([] / null / false). *)
(* Rows the store orders equally come back in insertion order.             *)
(***************************************************************************)
\* { ...object, ...patch }
Patch(object, patch) ==
    [f \in DOMAIN object |-> IF f \in DOMAIN patch THEN patch[f] ELSE object[f]]

RECURSIVE Select(_, _)
Select(rows, userId) ==
    IF rows = <<>> THEN <<>>
    ELSE (IF Head(rows).user_id = userId THEN <<Head(rows)>> ELSE <<>>)
            \o Select(Tail(rows), userId)

\* contactsApi.getAll(userId); getAll(undefined) asks for user_id IS NULL.
getAll(rows, userId, ok) ==
    IF ok THEN sort(3, "", Select(rows, userId)) ELSE <<>>

HasRow(rows, id) == \E i \in 1..Len(rows) : rows[i].id = id

\* contactsApi.update(id, updates)
update(rows, id, updates, ok) ==
    IF ok
    THEN [i \in 1..Len(rows) |-> IF rows[i].id = id THEN Patch(rows[i], updates) ELSE rows[i]]
    ELSE rows

\* contactsApi.delete(id)
delete(rows, id, ok) ==
    IF ok THEN SelectSeq(rows, LAMBDA r : r.id # id) ELSE rows

\* A row as the store keeps it: the columns of DbContact an insert does not
\* give are NULL, id and created_at are the store's.
DbRow(id, createdAt, given0) ==
    Patch([id |-> id, name |-> <<>>, purpose |-> <<>>, deadline |-> Undefined,
           status |-> "pending", category |-> "", priority |-> "", recurring |-> "",
           recurring_days |-> Undefined, recurring_weekday |-> Undefined,
           order |-> Undefined, created_at |-> createdAt,
           completed_at |-> Undefined, user_id |-> NoUser], given0)

\* contactsApi.create(contact)
create(rows, id, createdAt, contact, ok) ==
    IF ok THEN Append(rows, DbRow(id, createdAt, contact)) ELSE rows

Call(fn, id, what, ok) == [fn |-> fn, id |-> id, what |-> what, ok |-> ok]

\* The mapping of a store row to a Contact, the same at every load and in handleAdd.
formatContact(dbContact) ==
    [id |-> dbContact.id,
     name |-> dbContact.name,
     purpose |-> dbContact.purpose,
     deadline |-> dbContact.deadline,
     status |-> dbContact.status,
     category |-> IF dbContact.category = "" THEN "customer" ELSE dbContact.category,
     priority |-> IF dbContact.priority = "" THEN "C" ELSE dbContact.priority,
     createdAt |-> dbContact.created_at,
     completedAt |-> dbContact.completed_at,
     recurring |-> dbContact.recurring,
     recurringDays |-> Undefined, recurringWeekday |-> Undefined,
     order |-> Undefined, isOverdue |-> FALSE, originalDeadline |-> Undefined]

formattedContacts(rows) == [i \in 1..Len(rows) |-> formatContact(rows[i])]

\* The ascending sequence of a set of ids.
RECURSIVE IdSeq(_)
IdSeq(S) ==
    IF S = {} THEN <<>>
    ELSE LET m == CHOOSE x \in S : \A y \in S : x <= y
         IN <<m>> \o IdSeq(S \ {m})

(***************************************************************************)
(* Local storage, and the effect that saves the list in no-login mode.     *)
(***************************************************************************)
\* localStorage.getItem('contacts') || localStorage.getItem('agent-details')
stored == IF localContacts.present THEN localContacts ELSE localAgent

\* useEffect([contacts, useDatabase]): runs after every setContacts.
saveEffect(cs) ==
    IF ~useDatabase /\ Len(cs) > 0 THEN Item(cs) ELSE localContacts

(***************************************************************************)
(* saveToHistory, undo, redo.                                              *)
(***************************************************************************)
saveToHistoryKeepingRedo(newContacts) ==
    LET newHistory == Append(history, newContacts)
    IN [history |-> newHistory, historyIndex |-> Len(newHistory) - 1]

saveToHistorySkipped(newContacts) ==
    [history |-> history, historyIndex |-> historyIndex]

saveToHistory(newContacts) ==
    LET newHistory == Append(SubSeq(history, 1, historyIndex + 1), newContacts)
    IN [history |-> newHistory, historyIndex |-> Len(newHistory) - 1]

HasContact(cs, id) == \E i \in 1..Len(cs) : cs[i].id = id
Find(cs, id) == cs[CHOOSE i \in 1..Len(cs) : cs[i].id = id]

\* contacts.map(c => c.id === id ? { ...c, ...patch } : c)
MapPatch(cs, id, patch) ==
    [i \in 1..Len(cs) |-> IF cs[i].id = id THEN Patch(cs[i], patch) ELSE cs[i]]

\* The handler has room in the model's bounded history.
HistoryRoom == historyIndex + 2 <= MaxHistory

Loaded == op # NoOp

(***************************************************************************)
(* loadContacts. okUser, okLegacy and okAgain are the outcomes of the      *)
(* three list queries, okIds the legacy rows whose ownership update        *)
(* succeeds, okAt the positions of the local records whose create          *)
(* succeeds. The calls of a migration include the two removals from local  *)
(* storage, in their place among the store calls.                          *)
(***************************************************************************)
claimLegacyFirstOnly(rows, legacy, okIds) ==
    LET id == Head(legacy).id
        ok == id \in okIds
    IN [rows |-> update(rows, id, [user_id |-> UserId], ok),
        calls |-> <<Call("update", id, "user_id", ok)>>]

\* for (const contact of legacyContacts) update(contact.id, { user_id })
RECURSIVE claimLegacy(_, _, _)
claimLegacy(rows, legacy, okIds) ==
    IF legacy = <<>> THEN [rows |-> rows, calls |-> <<>>]
    ELSE LET id == Head(legacy).id
             ok == id \in okIds
             rest == claimLegacy(update(rows, id, [user_id |-> UserId], ok), Tail(legacy), okIds)
         IN [rows |-> rest.rows, calls |-> <<Call("update", id, "user_id", ok)>> \o rest.calls]

migrationPayloadUnstamped(contact) ==
    [name |-> contact.name, purpose |-> contact.purpose, deadline |-> contact.deadline,
     status |-> OrElseText(contact.status, "pending"),
     category |-> OrElseText(contact.category, "customer"),
     recurring |-> contact.recurring,
     recurring_days |-> contact.recurringDays,
     recurring_weekday |-> contact.recurringWeekday,
     order |-> IF contact.order = Undefined THEN 0 ELSE contact.order]

\* The payload the migration gives to create for one local record.
migrationPayload(contact) ==
    [name |-> contact.name, purpose |-> contact.purpose, deadline |-> contact.deadline,
     status |-> OrElseText(contact.status, "pending"),
     category |-> OrElseText(contact.category, "customer"),
     recurring |-> contact.recurring,
     recurring_days |-> contact.recurringDays,
     recurring_weekday |-> contact.recurringWeekday,
     order |-> IF contact.order = Undefined THEN 0 ELSE contact.order,
     user_id |-> UserId]

\* for (const contact of localContacts) create({...})
RECURSIVE migrate(_, _, _, _, _)
migrate(rows, locals, at, id, okAt) ==
    IF locals = <<>> THEN [rows |-> rows, calls |-> <<>>, nextId |-> id]
    ELSE LET ok == at \in okAt
             rest == migrate(create(rows, id, today, migrationPayload(Head(locals)), ok),
                             Tail(locals), at + 1, IF ok THEN id + 1 ELSE id, okAt)
         IN [rows |-> rest.rows,
             calls |-> <<Call("create", IF ok THEN id ELSE NoId, "migrate", ok)>> \o rest.calls,
             nextId |-> rest.nextId]

Loading(cs, rows, lc, la, cl, id) ==
    [contacts |-> cs, remote |-> rows, localContacts |-> lc, localAgent |-> la,
     calls |-> cl, nextId |-> id]

loadFromDatabase(okUser, okLegacy, okAgain, okIds, okAt) ==
    LET userContacts == getAll(remote, UserId, okUser)
        legacyContacts == getAll(remote, NoUser, okLegacy)
        dbContacts == userContacts \o legacyContacts
        firstCalls == <<Call("getAll", NoId, "user", okUser), Call("getAll", NoId, "legacy", okLegacy)>>
        again == Call("getAll", NoId, "user", okAgain)
        cleared == <<Call("removeItem", NoId, "contacts", TRUE),
                     Call("removeItem", NoId, "agent-details", TRUE)>>
    IN IF Len(legacyContacts) > 0
       THEN LET claimed == claimLegacy(remote, legacyContacts, okIds)
                updatedContacts == getAll(claimed.rows, UserId, okAgain)
            IN Loading(checkAndFixOverdueContacts(formattedContacts(updatedContacts), today),
                       claimed.rows, localContacts, localAgent,
                       firstCalls \o claimed.calls \o <<again>>, nextId)
       ELSE IF stored.present /\ Len(dbContacts) = 0
       THEN LET migrated == migrate(remote, stored.items, 1, nextId, okAt)
                migratedContacts == getAll(migrated.rows, UserId, okAgain)
            IN Loading(checkAndFixOverdueContacts(formattedContacts(migratedContacts), today),
                       migrated.rows, NoItem, NoItem,
                       firstCalls \o migrated.calls \o cleared \o <<again>>, migrated.nextId)
       ELSE Loading(checkAndFixOverdueContacts(formattedContacts(dbContacts), today),
                    remote, localContacts, localAgent, firstCalls, nextId)

\* JSON.parse(stored).map(contact => ({ ...contact, category: contact.category || 'customer' }))
parsedContacts(items) ==
    [i \in 1..Len(items) |-> Patch(items[i], [category |-> OrElseText(items[i].category, "customer")])]

loadFromLocalStorage(cs) ==
    IF stored.present
    THEN Loading(checkAndFixOverdueContacts(parsedContacts(stored.items), today),
                 remote, localContacts, localAgent, <<>>, nextId)
    ELSE Loading(cs, remote, localContacts, localAgent, <<>>, nextId)

\* The store and the ids have room for what a load may create.
LoadRoom == nextId + (IF stored.present THEN Len(stored.items) ELSE 0) <= MaxId + 1

\* The load itself, started over the list cs with the page in mode db. oks
\* are the outcomes the store calls of the load can have.
load(cs, db, name, oks) ==
    /\ \E okUser, okLegacy, okAgain \in (IF db THEN oks ELSE {TRUE}) :
       \E okIds \in SUBSET {remote[i].id : i \in {j \in 1..Len(remote) : db /\ remote[j].user_id = NoUser}} :
       \E okAt \in SUBSET (1..(IF db /\ stored.present THEN Len(stored.items) ELSE 0)) :
          /\ FALSE \in oks \/ (okIds = {remote[i].id : i \in {j \in 1..Len(remote) : remote[j].user_id = NoUser}}
                               /\ okAt = 1..Len(stored.items))
          /\ \E r \in {IF db THEN loadFromDatabase(okUser, okLegacy, okAgain, okIds, okAt)
                              ELSE loadFromLocalStorage(cs)} :
                /\ contacts' = r.contacts
                /\ remote' = r.remote
                /\ localAgent' = r.localAgent
                /\ localContacts' = IF ~db /\ Len(r.contacts) > 0
                                    THEN Item(r.contacts) ELSE r.localContacts
                /\ calls' = r.calls
                /\ nextId' = r.nextId
    /\ useDatabase' = db
    /\ op' = Op(name, NoId, IF db THEN "database" ELSE "local")

\* The page is opened: the component is constructed, and its load effect runs.
\* A deployment without the store can have it configured by the next opening.
openPage(oks) ==
    /\ LoadRoom
    /\ \E db \in BOOLEAN :
          /\ useDatabase => db
          /\ load(<<>>, db, "openPage", oks)
    /\ history' = <<>> /\ historyIndex' = -1
    /\ selectedIds' = {} /\ draggedContactId' = NoId /\ editingId' = NoId
    /\ sortMode' = "priority" /\ selectedCategory' = "all" /\ searchQuery' = <<>>
    /\ UNCHANGED <<today, prev, given, runDays, asyncVars>>

\* useEffect([loadContacts, user, useDatabase]): a new user object from the
\* auth listener runs the load again on the open page.
loadContacts(oks) ==
    /\ Loaded /\ useDatabase /\ LoadRoom
    /\ load(contacts, TRUE, "loadContacts", oks)
    /\ UNCHANGED <<today, prev, given, runDays, asyncVars>>
    /\ UNCHANGED pageVars

(***************************************************************************)
(* The handlers of the page. Each is one step: the store calls it awaits   *)
(* succeed or fail, and the state it sets is set at its end. The save      *)
(* effect runs on the list the handler leaves.                             *)
(***************************************************************************)
Priorities == {"A", "B", "C"}

\* What every handler leaves alone, and what it records.
handled(o, cs, rows, cl) ==
    /\ contacts' = cs
    /\ remote' = rows
    /\ calls' = cl
    /\ localContacts' = saveEffect(cs)
    /\ op' = o
    /\ UNCHANGED <<sortMode, selectedCategory, searchQuery, useDatabase, localAgent,
                   today, prev, given, runDays, asyncVars>>

pushed(h) == history' = h.history /\ historyIndex' = h.historyIndex

\* The store call of a handler, made in database mode only.
called(fn, id, what, ok) == IF useDatabase THEN <<Call(fn, id, what, ok)>> ELSE <<>>

handleAdd(deadline, priority, ok) ==
    /\ Loaded
    /\ Len(contacts) < MaxRecords /\ nextId <= MaxRecords + 1
    /\ useDatabase \/ ok
    /\ LET payload == [name |-> <<"n">>, purpose |-> <<"p">>, deadline |-> deadline,
                       status |-> "pending", category |-> "customer",
                       priority |-> priority, user_id |-> UserId]
           rows == IF useDatabase THEN create(remote, nextId, today, payload, ok) ELSE remote
           newContact == IF useDatabase
                         THEN formatContact(DbRow(nextId, today, payload))
                         ELSE Contact(nextId, <<"n">>, <<"p">>, deadline, "customer", priority, today)
           checkedContact == checkAndFixOverdueContacts(<<newContact>>, today)[1]
       IN /\ handled(Op("handleAdd", IF ok THEN nextId ELSE NoId, priority),
                     IF ok THEN Append(contacts, checkedContact) ELSE contacts,
                     rows, called("create", IF ok THEN nextId ELSE NoId, "add", ok))
          /\ nextId' = IF ok THEN nextId + 1 ELSE nextId
    /\ UNCHANGED pageVars

saveEdit(id, editDeadline, editPriority, ok) ==
    /\ Loaded /\ HasContact(contacts, id)
    /\ useDatabase \/ ok
    /\ LET c == Find(contacts, id)
           rows == IF useDatabase
                   THEN update(remote, id, [name |-> c.name, purpose |-> c.purpose,
                                            deadline |-> editDeadline, category |-> c.category,
                                            priority |-> editPriority], ok)
                   ELSE remote
           updatedContacts == MapPatch(contacts, id,
                                  [deadline |-> editDeadline, priority |-> editPriority,
                                   isOverdue |-> FALSE, originalDeadline |-> Undefined])
       IN handled(Op("saveEdit", id, editPriority),
                  checkAndFixOverdueContacts(updatedContacts, today),
                  rows, called("update", id, "edit", ok /\ HasRow(remote, id)))
    /\ UNCHANGED <<pageVars, nextId>>

deleteContact(id, ok) ==
    /\ Loaded /\ HasContact(contacts, id)
    /\ useDatabase \/ ok
    /\ handled(Op("deleteContact", id, ""),
               SelectSeq(contacts, LAMBDA c : c.id # id),
               IF useDatabase THEN delete(remote, id, ok) ELSE remote,
               called("delete", id, "", ok))
    /\ UNCHANGED <<pageVars, nextId>>

toggleComplete(id, ok) ==
    /\ Loaded /\ HasContact(contacts, id) /\ HistoryRoom
    /\ useDatabase \/ ok
    /\ LET contact == Find(contacts, id)
           newStatus == IF contact.status = "pending" THEN "completed" ELSE "pending"
           completedAt == IF newStatus = "completed" THEN today ELSE Undefined
           rows == IF useDatabase
                   THEN update(remote, id, [status |-> newStatus, completed_at |-> completedAt], ok)
                   ELSE remote
       IN /\ pushed(saveToHistory(contacts))
          /\ editingId' = IF newStatus = "completed" THEN id ELSE editingId
          /\ handled(Op("toggleComplete", id, newStatus),
                     MapPatch(contacts, id, [status |-> newStatus, completedAt |-> completedAt]),
                     rows, called("update", id, "status", ok /\ HasRow(remote, id)))
    /\ UNCHANGED <<selectedIds, draggedContactId, nextId>>

\* The panel of a completed record is shown while editingId names it.
PanelOpen(id) ==
    /\ HasContact(contacts, id)
    /\ Find(contacts, id).status = "completed"
    /\ editingId = id

handleNextAction(id, action, ok) ==
    /\ Loaded /\ PanelOpen(id)
    /\ useDatabase \/ ok
    /\ IF action = "remove"
       THEN handled(Op("handleNextAction", id, action),
                    SelectSeq(contacts, LAMBDA c : c.id # id),
                    IF useDatabase THEN delete(remote, id, ok) ELSE remote,
                    called("delete", id, "", ok))
       ELSE handled(Op("handleNextAction", id, action),
                    MapPatch(contacts, id, [status |-> "pending", completedAt |-> Undefined]),
                    IF useDatabase
                    THEN update(remote, id, [status |-> "pending", completed_at |-> Undefined], ok)
                    ELSE remote,
                    called("update", id, "status", ok /\ HasRow(remote, id)))
    /\ editingId' = NoId
    /\ UNCHANGED <<history, historyIndex, selectedIds, draggedContactId, nextId>>

\* JSON.stringify drops the keys whose value is undefined.
jsonBody(updates) ==
    [f \in {g \in DOMAIN updates :
               IF g = "recurring" THEN updates[g] # "" ELSE updates[g] # Undefined}
       |-> updates[f]]

nextDeadlineKeepingUnset(contact, nextDeadline, recurring, recurringDays, recurringWeekday) ==
    Patch(contact,
          [deadline |-> nextDeadline, status |-> "pending", completedAt |-> Undefined,
           recurring |-> OrElseText(recurring, contact.recurring),
           recurringDays |-> OrElse(recurringDays, contact.recurringDays),
           recurringWeekday |-> OrElse(recurringWeekday, contact.recurringWeekday)])

\* The record setNextDeadline leaves in the list for the record it is called on.
nextDeadlineOf(contact, nextDeadline, recurring, recurringDays, recurringWeekday) ==
    Patch(contact,
          [deadline |-> nextDeadline, status |-> "pending", completedAt |-> Undefined,
           recurring |-> recurring, recurringDays |-> recurringDays,
           recurringWeekday |-> recurringWeekday])

setNextDeadline(id, nextDeadline, recurring, recurringDays, recurringWeekday, ok) ==
    /\ Loaded /\ PanelOpen(id)
    /\ useDatabase \/ ok
    /\ LET rows == IF useDatabase
                   THEN update(update(remote, id,
                                      [deadline |-> nextDeadline, status |-> "pending",
                                       completed_at |-> Undefined], ok),
                               id, jsonBody([recurring |-> recurring,
                                             recurring_days |-> recurringDays,
                                             recurring_weekday |-> recurringWeekday]), ok)
                   ELSE remote
       IN handled(Op("setNextDeadline", id, recurring),
                  [i \in 1..Len(contacts) |->
                      IF contacts[i].id = id
                      THEN nextDeadlineOf(contacts[i], nextDeadline, recurring,
                                          recurringDays, recurringWeekday)
                      ELSE contacts[i]],
                  rows, called("update", id, "deadline", ok /\ HasRow(remote, id)))
    /\ editingId' = NoId
    /\ UNCHANGED <<history, historyIndex, selectedIds, draggedContactId, nextId>>

toggleSelect(id) ==
    /\ Loaded /\ HasContact(contacts, id)
    /\ selectedIds' = IF id \in selectedIds THEN selectedIds \ {id} ELSE selectedIds \cup {id}
    /\ handled(Op("toggleSelect", id, ""), contacts, remote, <<>>)
    /\ UNCHANGED <<history, historyIndex, draggedContactId, editingId, nextId>>

toggleSelectAll ==
    /\ Loaded
    /\ LET shown == projection
       IN selectedIds' = IF Cardinality(selectedIds) = Len(shown)
                         THEN {}
                         ELSE {shown[i].id : i \in 1..Len(shown)}
    /\ handled(Op("toggleSelectAll", NoId, ""), contacts, remote, <<>>)
    /\ UNCHANGED <<history, historyIndex, draggedContactId, editingId, nextId>>

RECURSIVE updateEachStoppingAtFailure(_, _, _, _, _)
updateEachStoppingAtFailure(rows, ids, updates, what, okIds) ==
    IF ids = <<>> THEN [rows |-> rows, calls |-> <<>>]
    ELSE LET id == Head(ids)
             ok == id \in okIds
             rest == IF ok
                     THEN updateEachStoppingAtFailure(update(rows, id, updates, ok), Tail(ids),
                                                      updates, what, okIds)
                     ELSE [rows |-> rows, calls |-> <<>>]
         IN [rows |-> rest.rows,
             calls |-> <<Call("update", id, what, ok /\ HasRow(rows, id))>> \o rest.calls]

updateEachOnce(rows, ids, updates, what, okIds) ==
    IF ids = <<>> THEN [rows |-> rows, calls |-> <<>>]
    ELSE [rows |-> update(rows, Head(ids), updates, Head(ids) \in okIds),
          calls |-> <<Call("update", Head(ids), what, Head(ids) \in okIds /\ HasRow(rows, Head(ids)))>>]

\* for (const id of ids) update(id, updates)
RECURSIVE updateEach(_, _, _, _, _)
updateEach(rows, ids, updates, what, okIds) ==
    IF ids = <<>> THEN [rows |-> rows, calls |-> <<>>]
    ELSE LET id == Head(ids)
             ok == id \in okIds
             rest == updateEach(update(rows, id, updates, ok), Tail(ids), updates, what, okIds)
         IN [rows |-> rest.rows,
             calls |-> <<Call("update", id, what, ok /\ HasRow(rows, id))>> \o rest.calls]

bulkSetPriority(newPriority, okIds) ==
    /\ Loaded /\ selectedIds # {} /\ HistoryRoom
    /\ useDatabase \/ okIds = selectedIds
    /\ LET updatedContacts ==
               [i \in 1..Len(contacts) |->
                   IF contacts[i].id \in selectedIds
                   THEN Patch(contacts[i], [priority |-> newPriority])
                   ELSE contacts[i]]
           stored0 == updateEach(remote, IdSeq(selectedIds), [priority |-> newPriority],
                                 "priority", okIds)
       IN /\ pushed(saveToHistory(contacts))
          /\ handled(Op("bulkSetPriority", NoId, newPriority), updatedContacts,
                     IF useDatabase THEN stored0.rows ELSE remote,
                     IF useDatabase THEN stored0.calls ELSE <<>>)
    /\ selectedIds' = {}
    /\ UNCHANGED <<draggedContactId, editingId, nextId>>

IsFlagged(c) == c.isOverdue /\ c.status = "pending"

bulkUpdateOverdueToToday(okIds) ==
    LET overdueContacts == SelectSeq(contacts, IsFlagged)
        overdueIds == [i \in 1..Len(overdueContacts) |-> overdueContacts[i].id]
    IN /\ Loaded /\ Len(overdueContacts) > 0 /\ HistoryRoom
       /\ useDatabase \/ okIds = {overdueIds[i] : i \in 1..Len(overdueIds)}
       /\ LET updatedContacts ==
                  [i \in 1..Len(contacts) |->
                      IF IsFlagged(contacts[i])
                      THEN Patch(contacts[i], [deadline |-> today, isOverdue |-> FALSE,
                                               originalDeadline |-> Undefined])
                      ELSE contacts[i]]
              stored0 == updateEach(remote, overdueIds, [deadline |-> today], "deadline", okIds)
          IN /\ pushed(saveToHistory(contacts))
             /\ handled(Op("bulkUpdateOverdueToToday", NoId, ""), updatedContacts,
                        IF useDatabase THEN stored0.rows ELSE remote,
                        IF useDatabase THEN stored0.calls ELSE <<>>)
       /\ UNCHANGED <<selectedIds, draggedContactId, editingId, nextId>>

\* The position of a record in a list.
IndexOf(cs, id) == CHOOSE i \in 1..Len(cs) : cs[i].id = id

\* [a[i], a[j]] = [a[j], a[i]]
Swapped(cs, i, j) ==
    [k \in 1..Len(cs) |-> IF k = i THEN cs[j] ELSE IF k = j THEN cs[i] ELSE cs[k]]

withOrderFromOne(cs) == [i \in 1..Len(cs) |-> [cs[i] EXCEPT !.order = i]]

\* newContacts.map((c, i) => ({ ...c, order: i }))
withOrder(cs) == [i \in 1..Len(cs) |-> [cs[i] EXCEPT !.order = i - 1]]

\* updatedContacts.forEach(async c => update(c.id, { order: c.order }))
RECURSIVE orderEach(_, _, _)
orderEach(rows, cs, okIds) ==
    IF cs = <<>> THEN [rows |-> rows, calls |-> <<>>]
    ELSE LET c == Head(cs)
             ok == c.id \in okIds
             rest == orderEach(update(rows, c.id, [order |-> c.order], ok), Tail(cs), okIds)
         IN [rows |-> rest.rows,
             calls |-> <<Call("update", c.id, "order", ok /\ HasRow(rows, c.id))>> \o rest.calls]

\* The updates of moveContact are started and not awaited; the step takes them
\* with it.
moveContact(id, direction, okIds) ==
    /\ Loaded /\ HasContact(contacts, id)
    /\ useDatabase \/ okIds = {}
    /\ LET index == IndexOf(contacts, id)
           newContacts == IF direction = "up" /\ index > 1
                          THEN Swapped(contacts, index, index - 1)
                          ELSE IF direction = "down" /\ index < Len(contacts)
                          THEN Swapped(contacts, index, index + 1)
                          ELSE contacts
           updatedContacts == withOrder(newContacts)
           stored0 == orderEach(remote, updatedContacts, okIds)
       IN handled(Op("moveContact", id, direction), updatedContacts,
                  IF useDatabase THEN stored0.rows ELSE remote,
                  IF useDatabase THEN stored0.calls ELSE <<>>)
    /\ UNCHANGED <<pageVars, nextId>>

\* The cards of the board are the pending records.
handleDragStart(contactId) ==
    /\ Loaded /\ HasContact(contacts, contactId)
    /\ Find(contacts, contactId).status = "pending"
    /\ draggedContactId # contactId
    /\ draggedContactId' = contactId
    /\ handled(Op("handleDragStart", contactId, ""), contacts, remote, <<>>)
    /\ UNCHANGED <<history, historyIndex, selectedIds, editingId, nextId>>

handleDragEnd ==
    /\ Loaded /\ draggedContactId # NoId
    /\ draggedContactId' = NoId
    /\ handled(Op("handleDragEnd", NoId, ""), contacts, remote, <<>>)
    /\ UNCHANGED <<history, historyIndex, selectedIds, editingId, nextId>>

\* The browser's time zone puts its calendar day at, before or after the UTC day.
LocalSkew == {-1, 0, 1}

handleDropOverdueAsToday(targetColumn, localDay) ==
    IF targetColumn = "future" THEN localDay + 1 ELSE localDay

\* newDeadline of handleDrop; Undefined is the branch that returns without one.
handleDropDeadline(targetColumn, localDay) ==
    CASE targetColumn = "today" -> localDay
      [] targetColumn = "future" -> localDay + 1
      [] OTHER -> Undefined

handleDrop(targetColumn, skew, ok) ==
    /\ Loaded /\ draggedContactId # NoId /\ HasContact(contacts, draggedContactId)
    /\ HistoryRoom
    /\ useDatabase \/ ok
    /\ pushed(saveToHistory(contacts))
    /\ LET newDeadline == handleDropDeadline(targetColumn, today + skew)
           updatedContacts == MapPatch(contacts, draggedContactId,
                                  [deadline |-> newDeadline, isOverdue |-> FALSE,
                                   originalDeadline |-> Undefined])
       IN IF newDeadline = Undefined
          THEN /\ ok /\ skew = 0
               /\ handled(Op("handleDrop", draggedContactId, targetColumn),
                          contacts, remote, <<>>)
          ELSE handled(Op("handleDrop", draggedContactId, targetColumn),
                       checkAndFixOverdueContacts(updatedContacts, today),
                       IF useDatabase
                       THEN update(remote, draggedContactId, [deadline |-> newDeadline], ok)
                       ELSE remote,
                       called("update", draggedContactId, "deadline",
                              ok /\ HasRow(remote, draggedContactId)))
    /\ draggedContactId' = NoId
    /\ UNCHANGED <<selectedIds, editingId, nextId>>

\* if (historyIndex > 0), which is also when the button is enabled.
undo ==
    /\ Loaded /\ historyIndex > 0
    /\ historyIndex' = historyIndex - 1
    /\ handled(Op("undo", NoId, ""), history[historyIndex - 1 + 1], remote, <<>>)
    /\ UNCHANGED <<history, selectedIds, draggedContactId, editingId, nextId>>

redo ==
    /\ Loaded /\ historyIndex < Len(history) - 1
    /\ historyIndex' = historyIndex + 1
    /\ handled(Op("redo", NoId, ""), history[historyIndex + 1 + 1], remote, <<>>)
    /\ UNCHANGED <<history, selectedIds, draggedContactId, editingId, nextId>>

(***************************************************************************)
(* The page over its sessions. The store starts empty or with one row an   *)
(* earlier version of the application wrote without an owner. Next is the  *)
(* whole machine; the specifications after it take the steps of Next that  *)
(* their properties are about, over inputs small enough to enumerate.      *)
(***************************************************************************)
LegacyRow ==
    DbRow(1, 1, [name |-> <<"n">>, purpose |-> <<"p">>, deadline |-> 1,
                 status |-> "pending", category |-> "customer"])

InitialRemote == {<<>>, <<LegacyRow>>}

InitOn(day, rows) ==
    /\ PageInit
    /\ today = day
    /\ useDatabase = FALSE
    /\ remote \in rows
    /\ nextId = Len(remote) + 1
    /\ localContacts = NoItem /\ localAgent = NoItem
    /\ calls = <<>> /\ op = NoOp
    /\ prev = <<>> /\ given = <<>> /\ runDays = <<>>
    /\ Idle

Init == InitOn(1, InitialRemote)

\* The days from today to the same day of the next month (setMonth(+1)).
MonthLengths == {28, 29, 30, 31}

\* The options of the weekday select (getDay(): 0 is Sunday).
Weekdays == 0..6

\* The days the weekday select adds for the day of the week it is given.
daysToAdd(weekday) ==
    LET currentDay == today % 7
        diff == weekday - currentDay
    IN IF diff <= 0 THEN diff + 7 ELSE diff

\* The calls of setNextDeadline the panel makes: (nextDeadline, recurring,
\* recurringDays, recurringWeekday) for tomorrow / next week / next month / a
\* picked date, daily / weekly / monthly, every N days, and a weekday.
ScheduleChoicesOf(offsets, picked, repeats, customs, weekdays) ==
    {<<today + k, "", Undefined, Undefined>> : k \in offsets}
        \cup {<<d, "", Undefined, Undefined>> : d \in picked}
        \cup {<<today + r[2], r[1], Undefined, Undefined>> : r \in repeats}
        \cup {<<today + n, "custom", n, Undefined>> : n \in customs}
        \cup {<<today + daysToAdd(w), "weekly", Undefined, w>> : w \in weekdays}

ScheduleChoices ==
    ScheduleChoicesOf({1, 7} \cup MonthLengths, Days,
                      {<<"daily", 1>>, <<"weekly", 7>>}
                          \cup {<<"monthly", m>> : m \in MonthLengths},
                      1..MaxCustomDays, Weekdays)

Targets == {"overdue", "today", "future"}

Next ==
    \/ openPage(BOOLEAN)
    \/ loadContacts(BOOLEAN)
    \/ advanceDay
    \/ \E d \in Days, p \in Priorities, ok \in BOOLEAN : handleAdd(d, p, ok)
    \/ \E id \in Ids, d \in Days, p \in Priorities, ok \in BOOLEAN : saveEdit(id, d, p, ok)
    \/ \E id \in Ids, ok \in BOOLEAN : deleteContact(id, ok)
    \/ \E id \in Ids, ok \in BOOLEAN : toggleComplete(id, ok)
    \/ \E id \in Ids, action \in {"remove", "cancel"}, ok \in BOOLEAN :
          handleNextAction(id, action, ok)
    \/ \E id \in Ids, ch \in ScheduleChoices, ok \in BOOLEAN :
          setNextDeadline(id, ch[1], ch[2], ch[3], ch[4], ok)
    \/ \E id \in Ids : toggleSelect(id)
    \/ toggleSelectAll
    \/ \E p \in Priorities, okIds \in SUBSET Ids : bulkSetPriority(p, okIds)
    \/ \E okIds \in SUBSET Ids : bulkUpdateOverdueToToday(okIds)
    \/ \E id \in Ids, direction \in {"up", "down"}, okIds \in SUBSET Ids :
          moveContact(id, direction, okIds)
    \/ \E id \in Ids : handleDragStart(id)
    \/ handleDragEnd
    \/ \E target \in Targets, skew \in LocalSkew, ok \in BOOLEAN :
          handleDrop(target, skew, ok)
    \/ undo
    \/ redo

Spec == Init /\ [][Next]_vars

(***************************************************************************)
(* SpecHistory: the handlers that record the list for undo, with the       *)
(* selection and the board, in sessions of either mode on one day.         *)
(***************************************************************************)
InitHistory == InitOn(2, {<<>>})

NextHistory ==
    \/ openPage({TRUE})
    \/ \E d \in Days : handleAdd(d, "C", TRUE)
    \/ \E id \in Ids : toggleComplete(id, TRUE)
    \/ \E id \in Ids : toggleSelect(id)
    \/ toggleSelectAll
    \/ \E p \in Priorities : bulkSetPriority(p, selectedIds)
    \/ \E id \in Ids : handleDragStart(id)
    \/ handleDragEnd
    \/ \E target \in Targets, skew \in LocalSkew, ok \in BOOLEAN :
          handleDrop(target, skew, ok)
    \/ undo
    \/ redo

SpecHistory == InitHistory /\ [][NextHistory]_vars

(***************************************************************************)
(* SpecMigration: sessions without and then with the record store, whose   *)
(* calls can fail.                                                         *)
(***************************************************************************)
InitMigration == InitOn(1, InitialRemote)

NextMigration ==
    \/ openPage(BOOLEAN)
    \/ loadContacts(BOOLEAN)
    \/ handleAdd(1, "C", TRUE)
    \/ \E id \in Ids : toggleComplete(id, TRUE)
    \/ \E id \in Ids, ok \in BOOLEAN : deleteContact(id, ok)

SpecMigration == InitMigration /\ [][NextMigration]_vars

(***************************************************************************)
(* SpecOverdue: the handlers that write deadlines and statuses, over the   *)
(* days.                                                                   *)
(***************************************************************************)
InitOverdue == InitOn(1, {<<>>})

NextOverdue ==
    \/ openPage({TRUE})
    \/ advanceDay
    \/ \E d \in Days : handleAdd(d, "C", TRUE)
    \/ \E id \in Ids, d \in Days : saveEdit(id, d, "C", TRUE)
    \/ \E id \in Ids : toggleComplete(id, TRUE)
    \/ \E id \in Ids, action \in {"remove", "cancel"} : handleNextAction(id, action, TRUE)
    \/ \E id \in Ids, d \in Days \cup {today + 1} :
          setNextDeadline(id, d, "", Undefined, Undefined, TRUE)
    \/ \E okIds \in SUBSET Ids : bulkUpdateOverdueToToday(okIds)

SpecOverdue == InitOverdue /\ [][NextOverdue]_vars

(***************************************************************************)
(* SpecReconcile: checkAndFixOverdueContacts applied repeatedly to a list, *)
(* on the same day or on later days.                                       *)
(***************************************************************************)
\* (isOverdue, originalDeadline) as the page leaves them on a record.
OverdueStates == {<<FALSE, Undefined>>} \cup {<<TRUE, d>> : d \in Days}

\* Pending records in every overdue state and with every deadline, and a completed
\* record whose deadline has passed (the pass leaves completed records alone).
ReconcileRecords ==
    { [Contact(1, <<"n">>, <<"p">>, d, "customer", "C", 1) EXCEPT
          !.isOverdue = o[1], !.originalDeadline = o[2]]
      : d \in Days, o \in OverdueStates }
    \cup { [Contact(1, <<"n">>, <<"p">>, 1, "customer", "C", 1) EXCEPT
               !.status = "completed", !.completedAt = 1] }

WithIds(cs) == [i \in 1..Len(cs) |-> [cs[i] EXCEPT !.id = i]]

InitReconcile ==
    /\ PageRest /\ EnvIdle
    /\ today \in Days
    /\ \E n \in 0..MaxContacts : \E cs \in [1..n -> ReconcileRecords] :
          given = WithIds(cs)
    /\ contacts = given
    /\ prev = given
    /\ runDays = <<>>
    /\ Idle

reconcile ==
    /\ Len(runDays) < MaxRuns
    /\ contacts' = checkAndFixOverdueContacts(contacts, today)
    /\ prev' = contacts
    /\ runDays' = Append(runDays, today)
    /\ UNCHANGED <<pageVars, envVars, op, today, given, asyncVars>>

NextReconcile == reconcile \/ advanceDay

SpecReconcile == InitReconcile /\ [][NextReconcile]_vars

Triple(c) == <<c.isOverdue, c.originalDeadline, c.deadline>>
Triples(cs) == [i \in 1..Len(cs) |-> Triple(cs[i])]

\* C2: running the reconciliation twice on the same day gives every record the
\* same (isOverdue, originalDeadline, deadline) triple as running it once.
C2_ReconcileIdempotent ==
    (Len(runDays) >= 2 /\ runDays[Len(runDays)] = runDays[Len(runDays) - 1])
        => Triples(contacts) = Triples(prev)

\* A second run on the same day over a list in which the first run flagged a record.
C2_Witness ==
    /\ Len(runDays) = 2 /\ runDays[2] = runDays[1]
    /\ \E i \in 1..Len(contacts) :
          /\ given[i].isOverdue = FALSE
          /\ contacts[i].isOverdue = TRUE

\* C3: a pending record with no original date whose deadline d is before the day
\* of the first run is flagged overdue with originalDeadline = d and its deadline
\* pinned to the day of the latest run, on that day and on every later day; an
\* original date that is already set is never overwritten.
C3_OriginalDatePreserved ==
    Len(runDays) >= 1 =>
        \A i \in 1..Len(given) :
            /\ (given[i].status = "pending" /\ given[i].deadline < runDays[1]
                    /\ given[i].originalDeadline = Undefined)
                 => /\ contacts[i].isOverdue = TRUE
                    /\ contacts[i].originalDeadline = given[i].deadline
                    /\ contacts[i].deadline = runDays[Len(runDays)]
            /\ given[i].originalDeadline # Undefined
                 => contacts[i].originalDeadline = given[i].originalDeadline

\* Two runs on different days over a record that was first due before the first.
C3_Witness ==
    /\ Len(runDays) = 2 /\ runDays[2] > runDays[1]
    /\ \E i \in 1..Len(given) :
          /\ given[i].status = "pending"
          /\ given[i].originalDeadline = Undefined
          /\ given[i].deadline < runDays[1]
          /\ contacts[i].deadline = runDays[2]

(***************************************************************************)
(* SpecSort and SpecFilter: the projection of every list of a bounded set  *)
(* of canonical lists, under every sort mode, category and query the       *)
(* toolbar can set.                                                        *)
(***************************************************************************)
ViewToday == 2

\* (deadline, isOverdue, originalDeadline): due yesterday, due today, and
\* overdue since yesterday with the deadline pinned to today.
DateStates == { <<1, FALSE, Undefined>>, <<2, FALSE, Undefined>>, <<2, TRUE, 1>> }

Dated(contact, ds) ==
    [contact EXCEPT !.deadline = ds[1], !.isOverdue = ds[2], !.originalDeadline = ds[3]]

PriorityRecords ==
    { Dated(Contact(1, <<"n">>, <<"p">>, 1, "customer", pr, 1), ds)
      : pr \in {"A", "B", "C", ""}, ds \in DateStates }

StatusRecords ==
    { [Dated(Contact(1, <<"n">>, <<"p">>, 1, "customer", "C", 1), ds) EXCEPT
          !.status = st, !.completedAt = IF st = "completed" THEN 1 ELSE Undefined]
      : st \in {"pending", "completed"}, ds \in DateStates }

\* (name, purpose, deadline)
TextStates == { << <<"a">>, <<"x">>, 2 >>, << <<"A", "b">>, <<"x">>, 1 >>,
                << <<"x">>, <<"a", "B">>, 1 >> }

TextRecords ==
    { Contact(1, tx[1], tx[2], tx[3], cat, "C", 1)
      : tx \in TextStates, cat \in {"advisor", "customer", ""} }

\* The families of records the lists of a specification are drawn from.
SortFamilies == {PriorityRecords, StatusRecords}
FilterFamilies == {TextRecords}

CategoryOptions == {"all", "customer", "advisor"}
Queries == { <<>>, <<"b">>, <<"A", "B">> }

InitView(families) ==
    /\ PageRest /\ EnvIdle
    /\ today = ViewToday
    /\ \E S \in families : \E n \in 0..MaxView : \E cs \in [1..n -> S] :
          given = WithIds(cs)
    /\ contacts = given
    /\ prev = given
    /\ runDays = <<>>
    /\ Idle

InitSort == InitView(SortFamilies)
InitFilter == InitView(FilterFamilies)

NextSort == setSortMode

NextFilter ==
    \/ setSortMode
    \/ \E cat \in CategoryOptions : setSelectedCategory(cat)
    \/ \E q \in Queries : setSearchQuery(q)

SpecSort == InitSort /\ [][NextSort]_vars
SpecFilter == InitFilter /\ [][NextFilter]_vars

\* The position of the record with this id in a list (0 when it is not there).
PositionOf(cs, id) ==
    IF \E i \in 1..Len(cs) : cs[i].id = id
    THEN CHOOSE i \in 1..Len(cs) : cs[i].id = id
    ELSE 0

Rank(contact) ==
    CASE contact.priority = "A" -> 1
      [] contact.priority = "B" -> 2
      [] OTHER -> 3

SortDate(contact) ==
    IF contact.isOverdue THEN contact.originalDeadline ELSE contact.deadline

IsProjectionOfAll(proj, cs) ==
    /\ Len(proj) = Len(cs)
    /\ \A i \in 1..Len(cs) : \E k \in 1..Len(proj) : proj[k] = cs[i]

\* C6: in sort mode 'priority' the projection is ordered by rank (A=1, B=2, C=3,
\* an absent priority as C), then by sort date (originalDeadline when isOverdue,
\* else deadline); records equal in both keep their order of the canonical list.
C6_PriorityOrder ==
    LET proj == projection IN
    (sortMode = "priority" /\ Len(proj) > 0) =>
        /\ IsProjectionOfAll(proj, contacts)
        /\ \A i, j \in 1..Len(proj) :
             i < j =>
               LET a == proj[i]
                   b == proj[j]
               IN /\ Rank(a) <= Rank(b)
                  /\ Rank(a) = Rank(b) => SortDate(a) <= SortDate(b)
                  /\ (Rank(a) = Rank(b) /\ SortDate(a) = SortDate(b))
                       => PositionOf(contacts, a.id) < PositionOf(contacts, b.id)

\* Priority mode has moved an A record in front of a record with no priority, kept
\* two C-ranked records (one with no priority) in canonical order and ordered an
\* overdue record by its original date.
C6_Witness ==
    LET proj == projection IN
    /\ sortMode = "priority"
    /\ Len(proj) = 3
    /\ proj # contacts
    /\ \E i \in 1..Len(proj) : proj[i].priority = ""
    /\ \E i \in 1..Len(proj) : proj[i].isOverdue

DueToday(contact) == contact.deadline = today

\* C7 as stated: in sort mode 'auto' every pending record precedes every completed
\* one, among pending records those due today come first, and otherwise the
\* records are in ascending order of sort date.
C7_AutoOrderAsStated ==
    LET proj == projection IN
    (sortMode = "auto") =>
        \A i, j \in 1..Len(proj) :
            i < j =>
              LET a == proj[i]
                  b == proj[j]
              IN /\ ~(a.status = "completed" /\ b.status = "pending")
                 /\ (a.status = "pending" /\ b.status = "pending")
                      => ~(DueToday(b) /\ ~DueToday(a))
                 /\ (a.status = b.status /\ DueToday(a) = DueToday(b))
                      => SortDate(a) <= SortDate(b)

\* C7 (amended): in sort mode 'auto' of this page variant the projection is in
\* ascending order of sort date alone, whatever the status of the records and
\* whether they are due today; records with equal sort dates keep their order of
\* the canonical list.
C7_AutoOrderBySortDate ==
    LET proj == projection IN
    (sortMode = "auto" /\ Len(proj) > 0) =>
        /\ IsProjectionOfAll(proj, contacts)
        /\ \A i, j \in 1..Len(proj) :
             i < j =>
               LET a == proj[i]
                   b == proj[j]
               IN /\ SortDate(a) <= SortDate(b)
                  /\ SortDate(a) = SortDate(b)
                       => PositionOf(contacts, a.id) < PositionOf(contacts, b.id)

\* Auto mode has put a completed record in front of a pending one, and an overdue
\* record (pinned to today) in front of a record that is due today.
C7_Witness ==
    LET proj == projection IN
    /\ sortMode = "auto"
    /\ proj # contacts
    /\ \E i, j \in 1..Len(proj) :
          /\ i < j
          /\ proj[i].status = "completed" /\ proj[j].status = "pending"
    /\ \E i, j \in 1..Len(proj) :
          /\ i < j
          /\ proj[i].isOverdue /\ ~proj[j].isOverdue
          /\ proj[i].deadline = proj[j].deadline

\* The claim's filter: the category (unset counting as 'customer') is the selected
\* one or 'all' is selected, and the name or the purpose contains the query,
\* compared without case; the empty query is contained in everything.
SameLetter(x, y) == LowerChar(x) = LowerChar(y)

ContainsNoCase(str, q) ==
    \E start \in 0..Len(str) :
        /\ start + Len(q) <= Len(str)
        /\ \A k \in 1..Len(q) : SameLetter(str[start + k], q[k])

Selected(contact) ==
    LET proj == projection IN
    /\ \/ selectedCategory = "all"
       \/ (IF contact.category = "" THEN "customer" ELSE contact.category) = selectedCategory
    /\ \/ ContainsNoCase(contact.name, searchQuery)
       \/ ContainsNoCase(contact.purpose, searchQuery)

\* C8: the projection holds exactly once, with every field unchanged, each record
\* of the canonical list that the category and search filters select, and no
\* other record; and rendering leaves the canonical list and its order unchanged.
C8_FilterPurity ==
    LET proj == projection IN
    /\ \A i \in 1..Len(contacts) :
         Cardinality({ k \in 1..Len(proj) : proj[k] = contacts[i] })
            = IF Selected(contacts[i]) THEN 1 ELSE 0
    /\ \A k \in 1..Len(proj) : \E i \in 1..Len(contacts) : proj[k] = contacts[i]
    /\ contacts = given

\* A category and a query are set; the query matches one record by its name in
\* another case and one by its purpose, and a record is filtered out.
C8_Witness ==
    LET proj == projection IN
    /\ selectedCategory = "customer"
    /\ searchQuery = <<"A", "B">>
    /\ Len(contacts) = 3
    /\ Len(proj) = 2
    /\ proj[1].id # contacts[1].id
    /\ \E k \in 1..2 : proj[k].name = <<"A", "b">> /\ proj[k].category = ""
    /\ \E k \in 1..2 : proj[k].purpose = <<"a", "B">>

(***************************************************************************)
(* SpecDrop: the board. The page holds records as a load or a day of use   *)
(* left them (due, flagged overdue, past due since the load, completed);   *)
(* in database mode the store holds their rows, in local mode the local    *)
(* storage holds the list.                                                 *)
(***************************************************************************)
\* The row of a record the page shows: the reconciliation never writes to the
\* store, whose deadline stays the original one.
storedRow(contact) ==
    DbRow(contact.id, contact.createdAt,
          [name |-> contact.name, purpose |-> contact.purpose,
           deadline |-> OrElse(contact.originalDeadline, contact.deadline),
           status |-> contact.status, category |-> contact.category,
           priority |-> contact.priority, completed_at |-> contact.completedAt,
           user_id |-> UserId])

\* An open page whose list is drawn from a family of records, in either mode.
InitPageWith(family) ==
    /\ PageRest
    /\ today = ViewToday
    /\ useDatabase \in BOOLEAN
    /\ \E n \in 0..MaxRecords : \E cs \in [1..n -> family] :
          given = WithIds(cs)
    /\ contacts = given
    /\ prev = given
    /\ runDays = <<>>
    /\ Idle
    /\ remote = IF useDatabase THEN [i \in 1..Len(given) |-> storedRow(given[i])] ELSE <<>>
    /\ nextId = Len(given) + 1
    /\ localContacts = IF ~useDatabase /\ Len(given) > 0 THEN Item(given) ELSE NoItem
    /\ localAgent = NoItem
    /\ calls = <<>>
    /\ op = Op("openPage", NoId, IF useDatabase THEN "database" ELSE "local")

InitDrop == InitPageWith(StatusRecords)

NextDrop ==
    \/ \E id \in Ids : handleDragStart(id)
    \/ handleDragEnd
    \/ \E target \in Targets, skew \in LocalSkew, ok \in BOOLEAN :
          handleDrop(target, skew, ok)

SpecDrop == InitDrop /\ [][NextDrop]_vars

\* C5: a drop on the overdue column leaves the list of records as it was and
\* issues no call to the record store.
C5_DropOnOverdueIsNoOp ==
    [][(\E skew \in LocalSkew, ok \in BOOLEAN : handleDrop("overdue", skew, ok))
          => /\ contacts' = contacts
             /\ remote' = remote
             /\ calls' = <<>>]_vars

\* A card was dropped on the overdue column in database mode.
C5_Witness ==
    /\ op.name = "handleDrop" /\ op.arg = "overdue"
    /\ useDatabase
    /\ HasContact(contacts, op.id)
    /\ Find(contacts, op.id).isOverdue

\* toggleComplete saves the list it finds: after it, the entry of the history
\* at historyIndex is the list as it was immediately before the toggle.
ToggleSavesTheListBefore ==
    [][(\E id \in Ids : toggleComplete(id, TRUE))
          => history'[historyIndex' + 1] = contacts]_vars

\* C1: toggleComplete of a pending record and then undo leave the list as it
\* was immediately before the toggle (the entry at historyIndex, see
\* ToggleSavesTheListBefore).
C1_UndoRestoresBeforeToggle ==
    [][op.name = "toggleComplete" /\ op.arg = "completed" /\ undo
          => contacts' = history[historyIndex + 1]]_vars

IsLoad == openPage(BOOLEAN) \/ loadContacts(BOOLEAN)

Issued(cl, fn, what) == \E i \in 1..Len(cl) : cl[i].fn = fn /\ cl[i].what = what

\* C4: a load in database mode that follows a load in database mode issues no
\* create and no ownership update and leaves the number of rows as it was; and
\* no load creates a row when the store holds a row of the user and the local
\* storage holds a record.
C4_NoDuplicateMigration ==
    [][IsLoad /\ useDatabase'
          => /\ op.arg = "database" /\ op.name \in {"openPage", "loadContacts"}
                => /\ ~Issued(calls', "create", "migrate")
                   /\ ~Issued(calls', "update", "user_id")
                   /\ Len(remote') = Len(remote)
             /\ (\E i \in 1..Len(remote) : remote[i].user_id = UserId)
                   /\ stored.present /\ Len(stored.items) >= 1
                => /\ ~Issued(calls', "create", "migrate")
                   /\ Len(remote') = Len(remote)]_vars

\* C9: every record of the list has completedAt set exactly when its status is
\* completed.
C9_CompletedAtIffCompleted ==
    \A i \in 1..Len(contacts) :
        (contacts[i].completedAt # Undefined) <=> (contacts[i].status = "completed")

\* C10: every record of the list flagged overdue is pending and has an original
\* deadline strictly before its deadline.
C10_OverdueIsPendingAndMoved ==
    \A i \in 1..Len(contacts) :
        contacts[i].isOverdue =>
            /\ contacts[i].status = "pending"
            /\ contacts[i].originalDeadline # Undefined
            /\ contacts[i].originalDeadline < contacts[i].deadline

(***************************************************************************)
(* SpecRecurring: the panel of a completed record and its reschedule       *)
(* choices, from a list in which no record has recurring fields. (undo and *)
(* redo put back a list the page held before; SpecHistory has them.)       *)
(***************************************************************************)
PlainRecords == {Contact(1, <<"n">>, <<"p">>, ViewToday, "customer", "C", 1)}

InitRecurring == InitPageWith(PlainRecords)

\* The choices of the panel, with one length of month and two of the weekdays.
RecurringChoices ==
    ScheduleChoicesOf({1, 7, 30}, {ViewToday},
                      {<<"daily", 1>>, <<"weekly", 7>>, <<"monthly", 30>>},
                      1..MaxCustomDays, {0, 3})

NextRecurring ==
    \/ loadContacts({TRUE})
    \/ \E id \in Ids : toggleComplete(id, TRUE)
    \/ \E id \in Ids, ch \in RecurringChoices :
          setNextDeadline(id, ch[1], ch[2], ch[3], ch[4], TRUE)
    \/ \E id \in Ids : handleNextAction(id, "cancel", TRUE)

SpecRecurring == InitRecurring /\ [][NextRecurring]_vars

\* C11: every record of the list has recurringDays set only if its recurring is
\* 'custom', and recurringWeekday set only if its recurring is 'weekly'.
C11_RecurringFieldsMatchKind ==
    \A i \in 1..Len(contacts) :
        /\ contacts[i].recurringDays # Undefined => contacts[i].recurring = "custom"
        /\ contacts[i].recurringWeekday # Undefined => contacts[i].recurring = "weekly"

\* A record that repeated every N days was rescheduled to repeat on a weekday.
C11_Witness ==
    /\ op.name = "setNextDeadline" /\ op.arg = "weekly"
    /\ \E i \in 1..Len(contacts) :
          /\ contacts[i].id = op.id
          /\ contacts[i].recurringWeekday # Undefined
          /\ contacts[i].recurringDays = Undefined
    /\ \E k \in 1..Len(history) : \E i \in 1..Len(history[k]) :
          history[k][i].id = op.id /\ history[k][i].recurring = "custom"

(***************************************************************************)
(* SpecMutations: each handler applied once to a page in the middle of a   *)
(* session: a list as a load or a day of use left it, a history of earlier *)
(* lists with the cursor anywhere in it, a selection, a card being         *)
(* dragged, the panel of a completed record open.                          *)
(***************************************************************************)
\* Pending and due, pending and flagged overdue, completed.
SessionRecords ==
    { [Dated(Contact(1, <<"n">>, <<"p">>, 1, "customer", "C", 1), ds) EXCEPT
          !.status = st, !.completedAt = IF st = "completed" THEN 1 ELSE Undefined]
      : st \in {"pending"}, ds \in {<<ViewToday, FALSE, Undefined>>, <<ViewToday, TRUE, 1>>} }
    \cup { [Contact(1, <<"n">>, <<"p">>, ViewToday, "customer", "C", 1) EXCEPT
               !.status = "completed", !.completedAt = 1] }

\* The k-th snapshot of a history: the list as an earlier bulkSetPriority found it.
Earlier(cs, k) ==
    [i \in 1..Len(cs) |-> [cs[i] EXCEPT !.priority = IF k % 2 = 1 THEN "B" ELSE "A"]]

IdsOf(cs) == {cs[i].id : i \in 1..Len(cs)}
IdsWith(cs, status) == {cs[i].id : i \in {j \in 1..Len(cs) : cs[j].status = status}}

\* A page in the middle of a session, with up to n records; busy is whether a
\* card can be in the air and a panel open.
InitSession(n0, busy) ==
    /\ today = ViewToday
    /\ useDatabase \in BOOLEAN
    /\ \E n \in 0..n0 : \E cs \in [1..n -> SessionRecords] :
          given = WithIds(cs)
    /\ contacts = given
    /\ prev = given
    /\ runDays = <<>>
    /\ Idle
    /\ \E len \in 0..(IF given = <<>> THEN 0 ELSE MaxHistory) :
          /\ history = [k \in 1..len |-> Earlier(given, k)]
          /\ historyIndex \in (IF len = 0 THEN {-1} ELSE 0..(len - 1))
    /\ selectedIds \in SUBSET IdsOf(given)
    /\ draggedContactId \in {NoId} \cup (IF busy THEN IdsWith(given, "pending") ELSE {})
    /\ editingId \in {NoId} \cup (IF busy THEN IdsWith(given, "completed") ELSE {})
    /\ sortMode = "priority" /\ selectedCategory = "all" /\ searchQuery = <<>>
    /\ remote = IF useDatabase THEN [i \in 1..Len(given) |-> storedRow(given[i])] ELSE <<>>
    /\ nextId = Len(given) + 1
    /\ localContacts = IF ~useDatabase /\ Len(given) > 0 THEN Item(given) ELSE NoItem
    /\ localAgent = NoItem
    /\ calls = <<>>
    /\ op = Op("session", NoId, "")

InitMutations == InitSession(MaxRecords, TRUE)

\* No handler has run on the page since.
Fresh == op.name = "session"

\* The handler applied.
NextMutations ==
    \/ Fresh /\ \E ok \in BOOLEAN : handleAdd(ViewToday, "C", ok)
    \/ Fresh /\ \E id \in Ids, d \in Days, ok \in BOOLEAN : saveEdit(id, d, "A", ok)
    \/ Fresh /\ \E id \in Ids, ok \in BOOLEAN : deleteContact(id, ok)
    \/ Fresh /\ \E id \in Ids, ok \in BOOLEAN : toggleComplete(id, ok)
    \/ Fresh /\ \E id \in Ids, action \in {"remove", "cancel"}, ok \in BOOLEAN :
                   handleNextAction(id, action, ok)
    \/ Fresh /\ \E id \in Ids, ch \in RecurringChoices, ok \in BOOLEAN :
                   setNextDeadline(id, ch[1], ch[2], ch[3], ch[4], ok)
    \/ Fresh /\ \E p \in Priorities, okIds \in SUBSET Ids : bulkSetPriority(p, okIds)
    \/ Fresh /\ \E okIds \in SUBSET Ids : bulkUpdateOverdueToToday(okIds)
    \/ Fresh /\ \E target \in Targets, skew \in LocalSkew, ok \in BOOLEAN :
                   handleDrop(target, skew, ok)
    \/ Fresh /\ undo
    \/ Fresh /\ redo

SpecMutations == InitMutations /\ [][NextMutations]_vars

\* The step pushes the list it found onto the history, after the entries up to
\* the cursor, and puts the cursor on it.
PushesSnapshot ==
    /\ historyIndex' = historyIndex + 1
    /\ Len(history') = historyIndex' + 1
    /\ history'[historyIndex' + 1] = contacts

Uncovered == {"handleAdd", "deleteContact", "handleNextAction", "saveEdit", "setNextDeadline"}
Covered == {"toggleComplete", "bulkSetPriority", "bulkUpdateOverdueToToday"}

Pushers == Covered \cup {"handleDrop"}

\* C13: a handler that records the list for undo, run with the cursor on entry i,
\* leaves the first i+1 snapshots followed by the list it found, with the cursor
\* on that last entry; the cursor is always between -1 and the last entry; undo
\* runs only with the cursor above 0 and redo only with it below the last entry,
\* each moves the cursor by one, keeps the stack and puts the snapshot at the new
\* cursor in place of the list.
C13_HistoryDiscipline ==
    /\ [](-1 <= historyIndex /\ historyIndex <= Len(history) - 1)
    /\ [][/\ op'.name \in Pushers =>
                /\ history' = Append(SubSeq(history, 1, historyIndex + 1), contacts)
                /\ historyIndex' = Len(history') - 1
          /\ op'.name = "undo" =>
                /\ historyIndex > 0
                /\ historyIndex' = historyIndex - 1
                /\ history' = history
                /\ contacts' = history[historyIndex' + 1]
          /\ op'.name = "redo" =>
                /\ historyIndex < Len(history) - 1
                /\ historyIndex' = historyIndex + 1
                /\ history' = history
                /\ contacts' = history[historyIndex' + 1]]_vars

\* A handler has pushed the list it found onto a stack that had entries.
C13_Witness ==
    /\ op.name \in Pushers
    /\ historyIndex > 0
    /\ historyIndex = Len(history) - 1
    /\ history[historyIndex + 1] = given
    /\ history[historyIndex] = Earlier(given, historyIndex)

(***************************************************************************)
(* SpecLoad: the page opened, and loaded again, over a store that holds    *)
(* rows of the user and rows without an owner and a local storage that a   *)
(* session in no-login mode filled under either key; the store calls can   *)
(* fail.                                                                   *)
(***************************************************************************)
\* Records as no-login sessions save them: as added, rescheduled every N days
\* in a custom category and moved by hand, and completed after a weekly
\* reschedule.
LocalRecords ==
    { Contact(1, <<"n">>, <<"p">>, ViewToday, "customer", "C", 1),
      [Contact(1, <<"m">>, <<"p">>, ViewToday + 1, "vip", "A", 1) EXCEPT
          !.recurring = "custom", !.recurringDays = MaxCustomDays, !.order = 1],
      [Contact(1, <<"n">>, <<"q">>, 1, "customer", "C", 1) EXCEPT
          !.recurring = "weekly", !.recurringWeekday = 3,
          !.status = "completed", !.completedAt = 1] }

\* The rows of the store: of the user, or written without an owner.
StoreRows == {[LegacyRow EXCEPT !.user_id = u] : u \in {NoUser, UserId}}

InitLoad ==
    /\ PageInit
    /\ today = ViewToday
    /\ useDatabase = FALSE
    /\ \E n \in 0..MaxContacts : \E rows \in [1..n -> StoreRows] :
          remote = [i \in 1..n |-> [rows[i] EXCEPT !.id = i]]
    /\ nextId = Len(remote) + 1
    /\ \E n \in 0..MaxRecords : \E cs \in [1..n -> LocalRecords] :
          /\ given = WithIds(cs)
          /\ \E key \in {"contacts", "agent-details"} :
                /\ localContacts = IF n > 0 /\ key = "contacts" THEN Item(given) ELSE NoItem
                /\ localAgent = IF n > 0 /\ key = "agent-details" THEN Item(given) ELSE NoItem
    /\ calls = <<>> /\ op = NoOp
    /\ prev = <<>> /\ runDays = <<>>
    /\ Idle

NextLoad ==
    \/ openPage(BOOLEAN)
    \/ loadContacts(BOOLEAN)

SpecLoad == InitLoad /\ [][NextLoad]_vars

\* The rows of the store that have no owner.
Ownerless(rows) == Select(rows, NoUser)

\* The calls of a kind in a log of calls.
CallsOf(cl, fn, what) == SelectSeq(cl, LAMBDA c : c.fn = fn /\ c.what = what)

\* The ids of the records of a list, and of the rows of a query, in their order.
IdsIn(cs) == [i \in 1..Len(cs) |-> cs[i].id]

\* The load is in database mode and its query for rows without an owner
\* returns at least one.
FindsOwnerless ==
    /\ op'.name \in {"openPage", "loadContacts"} /\ op'.arg = "database"
    /\ calls'[2].ok /\ Ownerless(remote) # <<>>

\* C14: a load that finds rows without an owner issues one update of user_id
\* for each of them and no create, fetches the rows of the user again and makes
\* them the list, and leaves both keys of the local storage as they were; when
\* every update succeeds no row without an owner is left in the store.
C14_OwnershipFirst ==
    [][FindsOwnerless
          => /\ IdsIn(CallsOf(calls', "update", "user_id"))
                   = IdsIn(getAll(remote, NoUser, TRUE))
             /\ CallsOf(calls', "create", "migrate") = <<>>
             /\ CallsOf(calls', "removeItem", "contacts") = <<>>
             /\ CallsOf(calls', "removeItem", "agent-details") = <<>>
             /\ UNCHANGED <<localContacts, localAgent>>
             /\ calls'[Len(calls')].fn = "getAll" /\ calls'[Len(calls')].what = "user"
             /\ IdsIn(contacts') = IdsIn(getAll(remote', UserId, calls'[Len(calls')].ok))
             /\ (\A i \in 1..Len(calls') : calls'[i].what = "user_id" => calls'[i].ok)
                   => Ownerless(remote') = <<>>]_vars

\* A load has given every row without an owner to the user, with a local
\* payload in place.
C14_Witness ==
    /\ op.name \in {"openPage", "loadContacts"} /\ op.arg = "database"
    /\ Len(CallsOf(calls, "update", "user_id")) >= 1
    /\ \A i \in 1..Len(calls) : calls[i].ok
    /\ stored.present
    /\ Len(contacts) >= 1
    /\ Ownerless(remote) = <<>>

\* The load is in database mode, its two queries return no row, and the local
\* storage holds a payload under one of its keys.
FindsOnlyLocal ==
    /\ op'.name \in {"openPage", "loadContacts"} /\ op'.arg = "database"
    /\ calls'[1].ok => Select(remote, UserId) = <<>>
    /\ calls'[2].ok => Ownerless(remote) = <<>>
    /\ stored.present

\* The positions in a log of the calls of a kind.
PositionsOf(cl, fn, what) == {i \in 1..Len(cl) : cl[i].fn = fn /\ cl[i].what = what}

\* C15: a load that finds no row in the store and a payload in the local storage
\* issues one create for each local record; a row that a create makes is the
\* user's and has the name, purpose, deadline, status and category of its local
\* record; both keys are removed, once each and after the last create; and the
\* list is the rows of the user as fetched after that.
C15_MigratesLocalRecords ==
    [][FindsOnlyLocal
          => LET creates == CallsOf(calls', "create", "migrate")
                 last == calls'[Len(calls')]
             IN /\ Len(creates) = Len(stored.items)
                /\ CallsOf(calls', "update", "user_id") = <<>>
                /\ \A k \in 1..Len(creates) :
                      creates[k].ok
                         => \E i \in 1..Len(remote') :
                               /\ remote'[i].id = creates[k].id
                               /\ ~HasRow(remote, creates[k].id)
                               /\ remote'[i].user_id = UserId
                               /\ remote'[i].name = stored.items[k].name
                               /\ remote'[i].purpose = stored.items[k].purpose
                               /\ remote'[i].deadline = stored.items[k].deadline
                               /\ remote'[i].status = stored.items[k].status
                               /\ remote'[i].category = stored.items[k].category
                /\ Len(remote') = Len(remote) + Cardinality({k \in 1..Len(creates) : creates[k].ok})
                /\ \A key \in {"contacts", "agent-details"} :
                      /\ Cardinality(PositionsOf(calls', "removeItem", key)) = 1
                      /\ \A r \in PositionsOf(calls', "removeItem", key) :
                         \A c \in PositionsOf(calls', "create", "migrate") : c < r
                /\ localContacts' = NoItem /\ localAgent' = NoItem
                /\ last.fn = "getAll" /\ last.what = "user"
                /\ IdsIn(contacts') = IdsIn(getAll(remote', UserId, last.ok))]_vars

\* A load has moved the records of the local storage to the store.
C15_Witness ==
    /\ op.name \in {"openPage", "loadContacts"} /\ op.arg = "database"
    /\ Len(CallsOf(calls, "create", "migrate")) >= 1
    /\ \A i \in 1..Len(calls) : calls[i].ok
    /\ localContacts = NoItem /\ localAgent = NoItem
    /\ Len(contacts) = Len(CallsOf(calls, "create", "migrate"))
    /\ \A i \in 1..Len(remote) : remote[i].user_id = UserId

\* C16: after a load that migrates the local records with every store call
\* succeeding, the record of the list made from a local record has the
\* category, recurring, recurringDays, recurringWeekday and order of that
\* local record.
C16_MigrationKeepsFields ==
    [][FindsOnlyLocal /\ (\A i \in 1..Len(calls') : calls'[i].ok)
          => LET creates == CallsOf(calls', "create", "migrate")
             IN \A k \in 1..Len(creates) :
                   /\ HasContact(contacts', creates[k].id)
                   /\ LET c == Find(contacts', creates[k].id)
                          l == stored.items[k]
                      IN /\ c.category = l.category
                         /\ c.recurring = l.recurring
                         /\ c.recurringDays = l.recurringDays
                         /\ c.recurringWeekday = l.recurringWeekday
                         /\ c.order = l.order]_vars

\* The dragged record as a drop on a lane is to leave it, and the other records
\* as the overdue check leaves them.
DroppedOn(deadline) ==
    /\ HasContact(contacts', draggedContactId)
    /\ LET c == Find(contacts', draggedContactId)
       IN /\ c.deadline = deadline
          /\ ~c.isOverdue
          /\ c.originalDeadline = Undefined
    /\ Len(contacts') = Len(contacts)
    /\ \A i \in 1..Len(contacts) :
          contacts[i].id # draggedContactId => contacts'[i] = fixOverdue(contacts[i], today)

\* C17: after a drop on 'today' the dragged record has the local date as its
\* deadline, is not flagged overdue and has no original deadline; after a drop
\* on 'future' the same with the day after the local date; the other records
\* are as the overdue check leaves them; whether the local date is the UTC
\* date, the day before or the day after.
C17_DropSetsLocalDate ==
    [][\A skew \in LocalSkew, ok \in BOOLEAN :
          /\ handleDrop("today", skew, ok) => DroppedOn(today + skew)
          /\ handleDrop("future", skew, ok) => DroppedOn(today + skew + 1)]_vars

(***************************************************************************)
(* SpecBulk: the two bulk handlers applied to a page in the middle of a    *)
(* session with a selection, in either mode, the store updates failing or  *)
(* succeeding one by one.                                                  *)
(***************************************************************************)
InitBulk == InitSession(MaxContacts, FALSE)

NextBulk ==
    \/ Fresh /\ \E p \in Priorities, okIds \in SUBSET Ids : bulkSetPriority(p, okIds)
    \/ Fresh /\ \E okIds \in SUBSET Ids : bulkUpdateOverdueToToday(okIds)

SpecBulk == InitBulk /\ [][NextBulk]_vars

\* The ids of the calls of a kind, as a set.
IdsCalled(cl, fn, what) == {cl[i].id : i \in PositionsOf(cl, fn, what)}

\* C18: bulkSetPriority changes something only with a selection; it then issues
\* one store update of the priority for each selected id, whichever of them
\* fail, gives the priority to the selected records of the list and leaves
\* every other record and field as it was, and empties the selection.
C18_BulkPriority ==
    [][op'.name = "bulkSetPriority"
          => /\ selectedIds # {}
             /\ IdsCalled(calls', "update", "priority") = (IF useDatabase THEN selectedIds ELSE {})
             /\ Len(calls') = (IF useDatabase THEN Cardinality(selectedIds) ELSE 0)
             /\ Len(contacts') = Len(contacts)
             /\ \A i \in 1..Len(contacts) :
                   contacts'[i] = IF contacts[i].id \in selectedIds
                                  THEN [contacts[i] EXCEPT !.priority = op'.arg]
                                  ELSE contacts[i]
             /\ selectedIds' = {}]_vars

\* bulkSetPriority has run over two selected records, the first update failing.
C18_Witness ==
    /\ op.name = "bulkSetPriority" /\ op.arg = "A"
    /\ Len(calls) = 2 /\ ~calls[1].ok /\ calls[2].ok
    /\ Len(contacts) = 2
    /\ \A i \in 1..Len(contacts) : contacts[i].priority = "A"
    /\ selectedIds = {}

\* C19: bulkUpdateOverdueToToday changes something only when a pending record
\* is flagged overdue; it then gives every such record today as its deadline,
\* clears its flag and its original deadline, issues one store update of the
\* deadline for each of them and leaves the other records as they were, so that
\* no pending record of the list is flagged.
C19_BulkOverdueToToday ==
    [][op'.name = "bulkUpdateOverdueToToday"
          => LET flagged == {i \in 1..Len(contacts) :
                                contacts[i].isOverdue /\ contacts[i].status = "pending"}
             IN /\ flagged # {}
                /\ Len(contacts') = Len(contacts)
                /\ \A i \in 1..Len(contacts) :
                      contacts'[i] = IF i \in flagged
                                     THEN [contacts[i] EXCEPT !.deadline = today,
                                                              !.isOverdue = FALSE,
                                                              !.originalDeadline = Undefined]
                                     ELSE contacts[i]
                /\ IdsCalled(calls', "update", "deadline")
                      = (IF useDatabase THEN {contacts[i].id : i \in flagged} ELSE {})
                /\ Len(calls') = (IF useDatabase THEN Cardinality(flagged) ELSE 0)
                /\ \A i \in 1..Len(contacts') :
                      ~(contacts'[i].isOverdue /\ contacts'[i].status = "pending")]_vars

\* bulkUpdateOverdueToToday has run over two flagged records in database mode.
C19_Witness ==
    /\ op.name = "bulkUpdateOverdueToToday"
    /\ Len(calls) = 2
    /\ Len(contacts) = 2
    /\ \A i \in 1..Len(contacts) :
          /\ given[i].isOverdue
          /\ contacts[i].deadline = today /\ ~contacts[i].isOverdue
          /\ contacts[i].originalDeadline = Undefined

\* The handlers that change the list and call the store.
Mutations == Uncovered \cup Pushers

\* C20: a handler whose store call fails leaves the list as it found it, and
\* makes the call once.
C20_FailedCallKeepsList ==
    [][(op'.name \in Mutations /\ \E k \in 1..Len(calls') : ~calls'[k].ok)
          => /\ contacts' = contacts
             /\ \A i, j \in 1..Len(calls') :
                   calls'[i].fn = calls'[j].fn /\ calls'[i].id = calls'[j].id => i = j]_vars

(***************************************************************************)
(* The digest endpoint: GET of api/cron/slack-notify. The request is one   *)
(* step: its query and its post succeed or fail, and its response is the   *)
(* one it returns. The clock is the UTC day of the page and the minute of  *)
(* that day.                                                               *)
(***************************************************************************)
NoHeader == "null"
NoSecret == "undefined"
MinutesOfDay == 24 * 60

\* `Bearer ${process.env.CRON_SECRET}`
bearer(secret) == "Bearer " \o secret

\* The request passes the check of its Authorization header.
passesEverywhere(authHeader, nodeEnv, secret) ==
    authHeader = bearer(secret) \/ ~(nodeEnv = "production")

passes(authHeader, nodeEnv, secret) ==
    authHeader = bearer(secret)
        \/ ~(nodeEnv = "production" /\ secret # NoSecret /\ secret # "")

\* jstDate.toISOString().split('T')[0]: the UTC date of the instant moved by
\* nine hours and by getTimezoneOffset() of the server's own time zone.
todayStr(minute, timezoneOffset) ==
    LET jstOffset == 9 * 60
    IN today + ((minute + jstOffset + timezoneOffset) \div MinutesOfDay)

\* .eq('deadline', todayStr).eq('status', 'pending').in('priority', ['A', 'B'])
\* .order('priority', { ascending: true })
urgent(rows, day) ==
    SelectSeq(rows, LAMBDA r : r.deadline = day /\ r.status = "pending" /\ r.priority = "A")
        \o SelectSeq(rows, LAMBDA r : r.deadline = day /\ r.status = "pending" /\ r.priority = "B")

\* The lines of a group of the message.
lines(cs) == [i \in 1..Len(cs) |-> <<cs[i].name, cs[i].purpose>>]

\* The text of the digest: the date, the group of priority A, the group of
\* priority B, and the total.
message(cs, day) ==
    [date |-> day,
     priorityA |-> lines(SelectSeq(cs, LAMBDA c : c.priority = "A")),
     priorityB |-> lines(SelectSeq(cs, LAMBDA c : c.priority = "B")),
     total |-> Len(cs)]

\* NextResponse.json(body, { status })
Response(status, error, text, day, notified, cs) ==
    [status |-> status, error |-> error, message |-> text, date |-> day,
     notified |-> notified, contacts |-> cs]

\* fetch(SLACK_WEBHOOK_URL, ...) answers ok, answers not ok, or throws.
FetchOutcomes == {"ok", "not ok", "throws"}

GET(request, okStore, slack) ==
    /\ IF ~passes(request.authHeader, request.nodeEnv, request.secret)
       THEN /\ response' = Response(401, "Unauthorized", "", Undefined, 0, <<>>)
            /\ calls' = <<>>
            /\ webhook' = <<>>
       ELSE LET day == todayStr(request.minute, request.timezoneOffset)
                cs == urgent(remote, day)
            IN IF ~okStore
               THEN /\ response' = Response(500, "Database error", "", Undefined, 0, <<>>)
                    /\ calls' = <<Call("select", NoId, "digest", okStore)>>
                    /\ webhook' = <<>>
               ELSE IF Len(cs) = 0
               THEN /\ response' = Response(200, "", "No contacts to notify", day, 0, <<>>)
                    /\ calls' = <<Call("select", NoId, "digest", okStore)>>
                    /\ webhook' = <<>>
               ELSE /\ webhook' = <<message(cs, day)>>
                    /\ calls' = <<Call("select", NoId, "digest", okStore),
                                  Call("fetch", NoId, "webhook", slack = "ok")>>
                    /\ response' =
                          CASE slack = "ok" ->
                                 Response(200, "", "", day, Len(cs),
                                          [i \in 1..Len(cs) |-> <<cs[i].name, cs[i].priority>>])
                            [] slack = "not ok" ->
                                 Response(500, "Slack notification failed", "", Undefined, 0, <<>>)
                            [] OTHER ->
                                 Response(500, "Internal server error", "", Undefined, 0, <<>>)
    /\ op' = Op("GET", NoId, request.authHeader)
    /\ UNCHANGED <<contacts, pageVars, useDatabase, remote, nextId, localContacts,
                   localAgent, today, prev, given, runDays, inflight>>

(***************************************************************************)
(* SpecDigest: one request to the endpoint, with every header, every       *)
(* environment and in the evening and the morning of Japan, over stores of *)
(* records due on either day.                                              *)
(***************************************************************************)
\* Rows due today or tomorrow: pending with each priority, and completed.
DigestRows ==
    {[LegacyRow EXCEPT !.deadline = d, !.status = sp[1], !.priority = sp[2], !.user_id = UserId]
        : d \in {ViewToday, ViewToday + 1},
          sp \in {<<"pending", "A">>, <<"pending", "B">>, <<"pending", "C">>, <<"completed", "A">>}}

\* The requests: no header, the secret, another token; the secret set, empty
\* or unset; midnight and three in the afternoon UTC; a server on UTC and a
\* server on the time of Japan.
Requests ==
    [authHeader : {NoHeader, bearer("s"), bearer("x")},
     nodeEnv : {"production", "development"},
     secret : {NoSecret, "", "s"},
     minute : {0, 15 * 60},
     timezoneOffset : {0, -(9 * 60)}]

InitDigest ==
    /\ PageInit
    /\ today = ViewToday
    /\ useDatabase = FALSE
    /\ \E n \in 0..MaxContacts : \E rows \in [1..n -> DigestRows] :
          remote = [i \in 1..n |-> [rows[i] EXCEPT !.id = i]]
    /\ nextId = Len(remote) + 1
    /\ localContacts = NoItem /\ localAgent = NoItem
    /\ calls = <<>> /\ op = NoOp
    /\ prev = <<>> /\ runDays = <<>>
    /\ given \in Requests
    /\ Idle

NextDigest ==
    \E okStore \in BOOLEAN, slack \in FetchOutcomes :
        op.name = "" /\ GET(given, okStore, slack)

SpecDigest == InitDigest /\ [][NextDigest]_vars

\* C21: a request whose Authorization header is not 'Bearer ' and the
\* configured secret, in production with a secret configured, is answered 401
\* without a query of the store and without a post to the webhook; every other
\* request goes on to the query.
C21_DigestAuthorization ==
    [][op'.name = "GET"
          => IF /\ given.authHeader # "Bearer " \o given.secret
                /\ given.nodeEnv = "production"
                /\ given.secret \notin {NoSecret, ""}
             THEN response'.status = 401 /\ calls' = <<>> /\ webhook' = <<>>
             ELSE response'.status # 401 /\ Len(calls') >= 1 /\ calls'[1].fn = "select"]_vars

\* A request with another token has been answered 401 in production.
C21_Witness ==
    /\ op.name = "GET"
    /\ given.authHeader = bearer("x") /\ given.secret = "s" /\ given.nodeEnv = "production"
    /\ response.status = 401
    /\ Len(remote) > 0

\* The date in Japan at the instant of the request.
JapanDay == today + ((given.minute + 9 * 60) \div MinutesOfDay)

\* The rows the digest is about: due on the date in Japan, pending, of priority
\* A or B.
DueUrgent ==
    {i \in 1..Len(remote) : /\ remote[i].deadline = JapanDay
                            /\ remote[i].status = "pending"
                            /\ remote[i].priority \in {"A", "B"}}

\* C22: an authorized request posts to the webhook once exactly when the query
\* succeeds and a row is due on the date in Japan, pending and of priority A or
\* B; the message lists those rows and no other, and the response that reports
\* success counts them; with no such row nothing is posted and the response
\* says there is nothing to notify; a failed query is answered 500 without a
\* post, and a post the webhook does not accept is answered 500.
C22_DigestSelection ==
    [][op'.name = "GET" /\ response'.status # 401
          => LET okStore == calls'[1].ok
                 dueLines == {<<remote[i].name, remote[i].purpose>> : i \in DueUrgent}
             IN /\ Len(webhook') = (IF okStore /\ DueUrgent # {} THEN 1 ELSE 0)
                /\ Len(webhook') = 1
                      => /\ webhook'[1].date = JapanDay
                         /\ webhook'[1].total = Cardinality(DueUrgent)
                         /\ Len(webhook'[1].priorityA) + Len(webhook'[1].priorityB)
                               = Cardinality(DueUrgent)
                         /\ {webhook'[1].priorityA[k] : k \in 1..Len(webhook'[1].priorityA)}
                               \cup {webhook'[1].priorityB[k] : k \in 1..Len(webhook'[1].priorityB)}
                               = dueLines
                         /\ IF calls'[2].ok
                            THEN response'.status = 200
                                    /\ response'.notified = Cardinality(DueUrgent)
                            ELSE response'.status = 500 /\ response'.error # ""
                /\ okStore /\ DueUrgent = {}
                      => response'.status = 200 /\ response'.message = "No contacts to notify"
                /\ ~okStore => response'.status = 500 /\ response'.error = "Database error"]_vars

(***************************************************************************)
(* SpecManual: the page with a list whose first records were put in order  *)
(* by hand and whose last records were added since; records are moved and  *)
(* deleted, and the sort mode and the category filter are changed.         *)
(***************************************************************************)
ManualRecords ==
    { Contact(1, <<"n">>, <<"p">>, ViewToday, cat, "C", 1) : cat \in {"customer", "advisor"} }

InitManual ==
    /\ PageRest
    /\ today = ViewToday
    /\ useDatabase \in BOOLEAN
    /\ \E n \in 0..MaxView : \E cs \in [1..n -> ManualRecords] : \E k \in 0..n :
          given = [i \in 1..n |-> [WithIds(cs)[i] EXCEPT
                                      !.order = IF i <= k THEN i - 1 ELSE Undefined]]
    /\ contacts = given
    /\ prev = given
    /\ runDays = <<>>
    /\ remote = IF useDatabase THEN [i \in 1..Len(given) |-> storedRow(given[i])] ELSE <<>>
    /\ nextId = Len(given) + 1
    /\ localContacts = IF ~useDatabase /\ Len(given) > 0 THEN Item(given) ELSE NoItem
    /\ localAgent = NoItem
    /\ calls = <<>>
    /\ op = Op("openPage", NoId, IF useDatabase THEN "database" ELSE "local")
    /\ Idle

\* No record has been moved or deleted since the page was opened.
Untouched == op.name = "openPage"

NextManual ==
    \/ \E id \in Ids, direction \in {"up", "down"} :
          Untouched /\ moveContact(id, direction, IF useDatabase THEN IdsOf(contacts) ELSE {})
    \/ \E id \in Ids : Untouched /\ deleteContact(id, TRUE)
    \/ setSortMode
    \/ \E cat \in CategoryOptions : setSelectedCategory(cat)

SpecManual == InitManual /\ [][NextManual]_vars

\* The position in a list of the record with an id.
Place(cs, id) == IndexOf(cs, id)

\* C23: in sort mode 'manual', whatever the category filter, two records of the
\* projection that both have an order are in ascending order of it, also with
\* records without an order in the list; and two records of the projection are
\* in the order they have in the projection without a filter.
C23_ManualOrder ==
    sortMode = "manual"
        => LET shown == projection
               whole == filteredAndSortedContacts(contacts, sortMode, "all", <<>>)
           IN \A i, j \in 1..Len(shown) :
                 i < j => /\ (shown[i].order # Undefined /\ shown[j].order # Undefined
                                 => shown[i].order < shown[j].order)
                          /\ Place(whole, shown[i].id) < Place(whole, shown[j].id)

\* In manual mode a category is shown that holds two records put in order by
\* hand, while the list holds a record without an order.
C23_Witness ==
    /\ sortMode = "manual" /\ selectedCategory # "all"
    /\ Len(projection) >= 2 /\ Len(projection) < Len(contacts)
    /\ \A i \in 1..Len(projection) : projection[i].order # Undefined
    /\ \E i \in 1..Len(contacts) : contacts[i].order = Undefined

\* C24: moveContact runs only for a record of the list; it leaves the list with
\* the record and its neighbour above (up) or below (down) in each other's
\* place, or as it was when there is no such neighbour, every other record in
\* its place, and the record at each position with that position, counted from
\* 0, as its order.
C24_DenseOrder ==
    [][Untouched /\ op'.name = "moveContact"
          => /\ HasContact(contacts, op'.id)
             /\ LET index == IndexOf(contacts, op'.id)
                    other == IF op'.arg = "up" THEN index - 1 ELSE index + 1
                    to == IF other \in 1..Len(contacts) THEN other ELSE index
                IN /\ Len(contacts') = Len(contacts)
                   /\ \A i \in 1..Len(contacts) :
                         /\ contacts'[i].order = i - 1
                         /\ [contacts'[i] EXCEPT !.order = Undefined]
                               = [contacts[IF i = to THEN index ELSE IF i = index THEN to ELSE i]
                                     EXCEPT !.order = Undefined]]_vars

\* A record has been moved up past a record of the other category in a list of
\* three.
C24_Witness ==
    /\ op.name = "moveContact" /\ op.arg = "up"
    /\ Len(contacts) = 3
    /\ contacts[1].id = 2 /\ contacts[2].id = 1
    /\ \A i \in 1..3 : contacts[i].order = i - 1

(***************************************************************************)
(* SpecUndo: a page in the middle of a session on which a record is        *)
(* deleted and undo is pressed.                                            *)
(***************************************************************************)
InitUndo == InitSession(MaxContacts, TRUE)

\* The last handler removed a record from the list.
Removed ==
    \/ op.name = "deleteContact"
    \/ op.name = "handleNextAction" /\ op.arg = "remove"

NextUndo ==
    \/ \E id \in Ids : Fresh /\ deleteContact(id, TRUE)
    \/ \E id \in Ids : Fresh /\ handleNextAction(id, "remove", TRUE)
    \/ Removed /\ undo

SpecUndo == InitUndo /\ [][NextUndo]_vars

\* C25: an undo that follows deleteContact or handleNextAction 'remove' leaves
\* the list without a record of the id that was removed.
C25_DeletionIsPermanent ==
    [][Removed /\ op'.name = "undo" => ~HasContact(contacts', op.id)]_vars

(***************************************************************************)
(* SpecRedo: a page in the middle of a session on which undo and then redo *)
(* are pressed.                                                            *)
(***************************************************************************)
NextRedo ==
    \/ Fresh /\ undo
    \/ op.name = "undo" /\ redo

SpecRedo == InitUndo /\ [][NextRedo]_vars

\* C26: the redo that follows an undo leaves the list as the undo found it, and
\* the cursor, which the undo moved one entry back, one entry forward.
C26_UndoRedoRoundTrip ==
    [][/\ Fresh /\ op'.name = "undo" => historyIndex' = historyIndex - 1
       /\ op.name = "undo" /\ op'.name = "redo"
             => historyIndex' = historyIndex + 1 /\ contacts' = given]_vars

(***************************************************************************)
(* Handlers that overlap. In database mode a handler awaits its store call *)
(* and sets the list from the list of the render it was started in; a      *)
(* second handler can be started before the call of the first returns.     *)
(* Each handler is here two steps: Start, up to the await, and Finish,     *)
(* from the return of the call on.                                         *)
(***************************************************************************)
MaxPending == 2

\* A handler at its await: what it was called with and the list it read.
Pending(name, id, arg, day, read) ==
    [name |-> name, id |-> id, arg |-> arg, day |-> day, read |-> read]

Without(seq, k) == SubSeq(seq, 1, k - 1) \o SubSeq(seq, k + 1, Len(seq))

PendingIds == {inflight[k].id : k \in 1..Len(inflight)}

started(e) ==
    /\ inflight' = Append(inflight, e)
    /\ UNCHANGED <<contacts, remote, calls, localContacts, op, sortMode, selectedCategory,
                   searchQuery, useDatabase, localAgent, today, prev, given, runDays,
                   response, webhook, selectedIds, draggedContactId, nextId>>

finished(k, cs, rows, cl) ==
    /\ inflight' = Without(inflight, k)
    /\ contacts' = cs
    /\ remote' = rows
    /\ calls' = cl
    /\ localContacts' = saveEffect(cs)
    /\ op' = Op(inflight[k].name, inflight[k].id, inflight[k].arg)
    /\ UNCHANGED <<history, historyIndex, sortMode, selectedCategory, searchQuery,
                   useDatabase, localAgent, today, prev, given, runDays, response, webhook,
                   selectedIds, draggedContactId, nextId>>

\* toggleComplete up to its await: the guard, saveToHistory, the new status.
toggleCompleteStart(id) ==
    /\ Loaded /\ useDatabase /\ HasContact(contacts, id) /\ HistoryRoom
    /\ Len(inflight) < MaxPending
    /\ LET contact == Find(contacts, id)
           newStatus == IF contact.status = "pending" THEN "completed" ELSE "pending"
           completedAt == IF newStatus = "completed" THEN today ELSE Undefined
       IN /\ pushed(saveToHistory(contacts))
          /\ started(Pending("toggleComplete", id, newStatus, completedAt, contacts))
    /\ UNCHANGED editingId

\* toggleComplete from the return of update on.
toggleCompleteFinish(k) ==
    /\ k \in 1..Len(inflight) /\ inflight[k].name = "toggleComplete"
    /\ LET e == inflight[k]
       IN /\ editingId' = IF e.arg = "completed" THEN e.id ELSE editingId
          /\ finished(k, MapPatch(e.read, e.id, [status |-> e.arg, completedAt |-> e.day]),
                      update(remote, e.id, [status |-> e.arg, completed_at |-> e.day], TRUE),
                      <<Call("update", e.id, "status", HasRow(remote, e.id))>>)

\* saveEdit up to its await.
saveEditStart(id, editDeadline, editPriority) ==
    /\ Loaded /\ useDatabase /\ HasContact(contacts, id)
    /\ Len(inflight) < MaxPending
    /\ started(Pending("saveEdit", id, editPriority, editDeadline, contacts))
    /\ UNCHANGED <<history, historyIndex, editingId>>

\* saveEdit from the return of update on.
saveEditFinish(k) ==
    /\ k \in 1..Len(inflight) /\ inflight[k].name = "saveEdit"
    /\ LET e == inflight[k]
           c == Find(e.read, e.id)
           updatedContacts == MapPatch(e.read, e.id,
                                  [deadline |-> e.day, priority |-> e.arg,
                                   isOverdue |-> FALSE, originalDeadline |-> Undefined])
       IN finished(k, checkAndFixOverdueContacts(updatedContacts, today),
                   update(remote, e.id, [name |-> c.name, purpose |-> c.purpose,
                                         deadline |-> e.day, category |-> c.category,
                                         priority |-> e.arg], TRUE),
                   <<Call("update", e.id, "edit", HasRow(remote, e.id))>>)
    /\ UNCHANGED editingId

(***************************************************************************)
(* SpecOverlap: a page in database mode whose list agrees with the store;  *)
(* records are completed and edited, a second handler being started on     *)
(* another record while the call of the first is pending.                  *)
(***************************************************************************)
InitOverlap ==
    /\ InitSession(MaxContacts, FALSE)
    /\ useDatabase
    /\ selectedIds = {}

NextOverlap ==
    \/ \E id \in Ids \ PendingIds : toggleCompleteStart(id)
    \/ \E id \in Ids \ PendingIds : saveEditStart(id, ViewToday, "A")
    \/ \E k \in 1..MaxPending : toggleCompleteFinish(k)
    \/ \E k \in 1..MaxPending : saveEditFinish(k)

SpecOverlap == InitOverlap /\ [][NextOverlap]_vars

\* The list and the store say the same of the status and the priority of every
\* record of the list.
Agrees ==
    \A i \in 1..Len(contacts) :
        \E j \in 1..Len(remote) :
            /\ remote[j].id = contacts[i].id
            /\ remote[j].status = contacts[i].status
            /\ remote[j].priority = contacts[i].priority

\* C27: when no handler is pending, the list agrees with the store on every
\* record, also after two handlers on different records of which the second was
\* started while the call of the first was pending.
C27_NoLostUpdate == inflight = <<>> => Agrees

(***************************************************************************)
(* Loads that overlap. The load effect runs loadContacts again whenever    *)
(* the user object changes, also while an earlier run awaits the store. A  *)
(* run is here two steps: Start, its two list queries and the choice of    *)
(* its branch, and Finish, the store calls of the branch, the removal of   *)
(* the local keys and setContacts.                                         *)
(***************************************************************************)
\* loadContacts up to the first await of its branch.
loadContactsStart(okUser, okLegacy) ==
    /\ useDatabase /\ Len(inflight) < MaxPending
    /\ LET userContacts == getAll(remote, UserId, okUser)
           legacyContacts == getAll(remote, NoUser, okLegacy)
           dbContacts == userContacts \o legacyContacts
       IN started(IF Len(legacyContacts) > 0
                  THEN Pending("loadContacts", NoId, "claim", Undefined, legacyContacts)
                  ELSE IF stored.present /\ Len(dbContacts) = 0
                  THEN Pending("loadContacts", NoId, "migrate", Undefined, stored.items)
                  ELSE Pending("loadContacts", NoId, "plain", Undefined, dbContacts))
    /\ UNCHANGED <<history, historyIndex, editingId>>

\* loadContacts from the first await of its branch on.
loadContactsFinish(k) ==
    /\ k \in 1..Len(inflight) /\ inflight[k].name = "loadContacts"
    /\ LET e == inflight[k]
           again == Call("getAll", NoId, "user", TRUE)
           cleared == <<Call("removeItem", NoId, "contacts", TRUE),
                        Call("removeItem", NoId, "agent-details", TRUE)>>
           claimed == claimLegacy(remote, e.read, IdsOf(e.read))
           migrated == migrate(remote, e.read, 1, nextId, 1..Len(e.read))
       IN /\ e.arg = "migrate" => nextId + Len(e.read) <= MaxId + 1
          /\ \E r \in {IF e.arg = "claim"
                       THEN Loading(formattedContacts(getAll(claimed.rows, UserId, TRUE)),
                                    claimed.rows, localContacts, localAgent,
                                    claimed.calls \o <<again>>, nextId)
                       ELSE IF e.arg = "migrate"
                       THEN Loading(formattedContacts(getAll(migrated.rows, UserId, TRUE)),
                                    migrated.rows, NoItem, NoItem,
                                    migrated.calls \o cleared \o <<again>>, migrated.nextId)
                       ELSE Loading(formattedContacts(e.read), remote, localContacts,
                                    localAgent, <<>>, nextId)} :
                /\ contacts' = checkAndFixOverdueContacts(r.contacts, today)
                /\ remote' = r.remote
                /\ localContacts' = r.localContacts
                /\ localAgent' = r.localAgent
                /\ calls' = r.calls
                /\ nextId' = r.nextId
          /\ inflight' = Without(inflight, k)
          /\ op' = Op("loadContacts", NoId, e.arg)
    /\ UNCHANGED <<pageVars, useDatabase, today, prev, given, runDays, response, webhook>>

(***************************************************************************)
(* SpecReload: the page of a user in database mode, over a store that      *)
(* holds rows of the user or none and a local storage that a session in    *)
(* no-login mode filled; loads start, one while another is pending, their  *)
(* first list query can fail, and they finish in any order.                *)
(***************************************************************************)
InitReload ==
    /\ PageInit
    /\ today = ViewToday
    /\ useDatabase = TRUE
    /\ \E n \in 0..MaxContacts : \E rows \in [1..n -> StoreRows] :
          remote = [i \in 1..n |-> [rows[i] EXCEPT !.id = i]]
    /\ nextId = Len(remote) + 1
    /\ \E n \in 0..MaxRecords : \E cs \in [1..n -> LocalRecords] :
          /\ given = WithIds(cs)
          /\ \E key \in {"contacts", "agent-details"} :
                /\ localContacts = IF n > 0 /\ key = "contacts" THEN Item(given) ELSE NoItem
                /\ localAgent = IF n > 0 /\ key = "agent-details" THEN Item(given) ELSE NoItem
    /\ calls = <<>> /\ op = NoOp
    /\ prev = <<>> /\ runDays = <<>>
    /\ Idle

NextReload ==
    \/ \E okUser \in BOOLEAN : loadContactsStart(okUser, TRUE)
    \/ \E k \in 1..MaxPending : loadContactsFinish(k)

SpecReload == InitReload /\ [][NextReload]_vars

\* A run of loadContacts finishes in the step.
LoadFinishes == Len(inflight') < Len(inflight) /\ op'.name = "loadContacts"

\* C28: the run of loadContacts that finishes creates no row when the store
\* holds a row of the user, whether another run overlapped it or its list
\* query failed.
C28_NoDuplicateMigration ==
    [][LoadFinishes /\ (\E i \in 1..Len(remote) : remote[i].user_id = UserId)
          => Len(remote') = Len(remote) /\ ~Issued(calls', "create", "migrate")]_vars

\* The load takes the migration branch in the step.
Migrates ==
    /\ op'.name \in {"openPage", "loadContacts"} /\ op'.arg = "database"
    /\ Issued(calls', "create", "migrate")

\* The i-th record of the local payload is, after the step, a row of the user
\* that the i-th create made.
Migrated(i) ==
    LET made == CallsOf(calls', "create", "migrate")[i]
    IN /\ made.ok
       /\ \E j \in 1..Len(remote') :
             /\ remote'[j].id = made.id
             /\ remote'[j].user_id = UserId
             /\ remote'[j].name = stored.items[i].name
             /\ remote'[j].purpose = stored.items[i].purpose

\* The i-th record of the local payload is, after the step, under a key of the
\* local storage.
KeptLocally(i) ==
    \/ localContacts'.present
          /\ \E k \in 1..Len(localContacts'.items) : localContacts'.items[k] = stored.items[i]
    \/ localAgent'.present
          /\ \E k \in 1..Len(localAgent'.items) : localAgent'.items[k] = stored.items[i]

\* C29: after a load that took the migration branch, every record of the local
\* payload is a row of the user in the store or is still under a key of the
\* local storage, also when creates fail.
C29_MigrationLosesNothing ==
    [][Migrates => \A i \in 1..Len(stored.items) : Migrated(i) \/ KeptLocally(i)]_vars

\* The same when no create of the load fails.
MigrationLosesNothingWithoutFailure ==
    [][Migrates /\ (\A k \in 1..Len(calls') : calls'[k].fn = "create" => calls'[k].ok)
          => \A i \in 1..Len(stored.items) : Migrated(i) \/ KeptLocally(i)]_vars

(***************************************************************************)
(* SpecLocal: each handler that changes the list applied once to a page in *)
(* no-login mode in the middle of a session.                               *)
(***************************************************************************)
InitLocal == InitSession(MaxContacts, TRUE) /\ ~useDatabase

NextLocal ==
    \/ Fresh /\ handleAdd(ViewToday, "C", TRUE)
    \/ \E id \in Ids, d \in Days : Fresh /\ saveEdit(id, d, "A", TRUE)
    \/ \E id \in Ids : Fresh /\ toggleComplete(id, TRUE)
    \/ \E id \in Ids : Fresh /\ deleteContact(id, TRUE)
    \/ \E id \in Ids, direction \in {"up", "down"} : Fresh /\ moveContact(id, direction, {})
    \/ Fresh /\ undo
    \/ Fresh /\ redo

SpecLocal == InitLocal /\ [][NextLocal]_vars

\* What a reload of the page would load: loadContacts over the empty list of a
\* new page.
Reloaded == loadFromLocalStorage(<<>>).contacts

\* C30: in no-login mode, after a handler has changed the list, the 'contacts'
\* key holds the list, and a reload would load the records of the list, also
\* when the list is empty.
C30_LocalPersistence ==
    ~useDatabase /\ ~Fresh
        => /\ localContacts = Item(contacts)
           /\ IdsOf(Reloaded) = IdsOf(contacts)

\* The same of the lists that are not empty.
LocalPersistenceOfNonEmptyLists ==
    ~useDatabase /\ ~Fresh /\ Len(contacts) > 0
        => /\ localContacts = Item(contacts)
           /\ IdsOf(Reloaded) = IdsOf(contacts)

====
